---------------------------- MODULE Spec2Model ----------------------------
(***************************************************************************)
(* mose-melody: the Morse codec (src/utils/morseMapping.ts) and the audio  *)
(* engine (src/services/audioEngine.ts): timeline generation, playback     *)
(* scheduling, completion timers and audio-context teardown.               *)
(*                                                                         *)
(* Representation.                                                         *)
(*  - A character is its UTF-16 code unit (what charCodeAt(0) returns);    *)
(*    a text is a sequence of code units.                                  *)
(*  - A Morse code is a sequence of the one-character strings "." and "-". *)
(*  - Times are integers in microseconds (0.14 s = 140000).                *)
(*  - tempoMultiplier is kept in hundredths (1.0 = 100); the themes used   *)
(*    of the timeline properties have tempi that divide DOT_TIME * 100     *)
(*    exactly, so unitTime is the exact quotient the code computes (for    *)
(*    the other tempi of the App it is cut to a whole microsecond).        *)
(*  - A frequency base * 2^(n/12) is the record [base, semitones |-> n].   *)
(***************************************************************************)
EXTENDS Integers, Sequences, FiniteSets, TLC

VARIABLES
    audioCtx,        \* AudioEngine.audioCtx: 0 (null) or the id of a context
    masterGain,      \* AudioEngine.masterGain: 0 (null) or the context it was created on
    melodyGain,      \* AudioEngine.melodyGain: same
    padGain,         \* AudioEngine.padGain: same
    padOscillators,  \* AudioEngine.padOscillators: sequence of [ctx, idx]
    events,          \* AudioEngine.events: the stored timeline
    isPlaying,       \* AudioEngine.isPlaying
    timerID,         \* AudioEngine.timerID: 0 (null) or the id of a window timer
    contexts,        \* browser: status of every AudioContext constructed so far
    timers,          \* browser: the pending window timers, [play, stage]
    tones,           \* browser: note tones scheduled on contexts not yet closed
    completed,       \* log of onComplete invocations, in order
    plays,           \* number of play() calls so far; the latest play's id
    stopped,         \* the plays that were in progress when a stop() ran
    ctxTime,         \* browser: currentTime of the context audioCtx refers to,
                     \*   0 or 1 (1 stands for any reading above 0)
    rejections,      \* browser: contexts on which suspend()/close() were
                     \*   requested again after close() had been requested
    failed,          \* play() calls whose promise was rejected
    caller,          \* the latest call the caller made: "none", "play", "stop"
    appIsPlaying,    \* App: the isPlaying state of the component that calls
                     \*   the engine
    app,             \* App: the text typed and the theme selections
                     \*   (React state)
    firstCall,       \* first generateTimeline call: arguments, returned list,
                     \*   and whether the engine was playing (busy)
    lastCall         \* latest generateTimeline call: the same, and whether it
                     \*   had a predecessor (again)

vars == <<audioCtx, masterGain, melodyGain, padGain, padOscillators, events,
          isPlaying, timerID, contexts, timers, tones, completed, plays,
          stopped, ctxTime, rejections, failed, caller, appIsPlaying, app,
          firstCall, lastCall>>

engineVars == <<audioCtx, masterGain, melodyGain, padGain, padOscillators,
                isPlaying, timerID, contexts, timers, tones, completed, plays,
                stopped, ctxTime, rejections, failed, caller, appIsPlaying,
                app>>

-----------------------------------------------------------------------------
(* Bounds of the model.                                                    *)

\* Longest input text, in code units.
MaxLen == 3

\* Number of play() calls in one behaviour.
MaxPlays == 2

\* Largest reading of the audio clock, in ticks.
MaxClock == 2

-----------------------------------------------------------------------------
(* src/types.ts: MorseSymbol.                                              *)

DOT == "."

DASH == "-"

SPACE == " "

WORD_SPACE == "/"

\* symbol: null
NULL == "null"

-----------------------------------------------------------------------------
(* src/utils/morseMapping.ts                                               *)

\* MORSE_MAP[c]; <<>> stands for undefined (no entry).
MORSE_MAP(c) ==
    CASE c = 65 -> <<".", "-">>
      [] c = 66 -> <<"-", ".", ".", ".">>
      [] c = 67 -> <<"-", ".", "-", ".">>
      [] c = 68 -> <<"-", ".", ".">>
      [] c = 69 -> <<".">>
      [] c = 70 -> <<".", ".", "-", ".">>
      [] c = 71 -> <<"-", "-", ".">>
      [] c = 72 -> <<".", ".", ".", ".">>
      [] c = 73 -> <<".", ".">>
      [] c = 74 -> <<".", "-", "-", "-">>
      [] c = 75 -> <<"-", ".", "-">>
      [] c = 76 -> <<".", "-", ".", ".">>
      [] c = 77 -> <<"-", "-">>
      [] c = 78 -> <<"-", ".">>
      [] c = 79 -> <<"-", "-", "-">>
      [] c = 80 -> <<".", "-", "-", ".">>
      [] c = 81 -> <<"-", "-", ".", "-">>
      [] c = 82 -> <<".", "-", ".">>
      [] c = 83 -> <<".", ".", ".">>
      [] c = 84 -> <<"-">>
      [] c = 85 -> <<".", ".", "-">>
      [] c = 86 -> <<".", ".", ".", "-">>
      [] c = 87 -> <<".", "-", "-">>
      [] c = 88 -> <<"-", ".", ".", "-">>
      [] c = 89 -> <<"-", ".", "-", "-">>
      [] c = 90 -> <<"-", "-", ".", ".">>
      [] c = 49 -> <<".", "-", "-", "-", "-">>
      [] c = 50 -> <<".", ".", "-", "-", "-">>
      [] c = 51 -> <<".", ".", ".", "-", "-">>
      [] c = 52 -> <<".", ".", ".", ".", "-">>
      [] c = 53 -> <<".", ".", ".", ".", ".">>
      [] c = 54 -> <<"-", ".", ".", ".", ".">>
      [] c = 55 -> <<"-", "-", ".", ".", ".">>
      [] c = 56 -> <<"-", "-", "-", ".", ".">>
      [] c = 57 -> <<"-", "-", "-", "-", ".">>
      [] c = 48 -> <<"-", "-", "-", "-", "-">>
      [] c = 46 -> <<".", "-", ".", "-", ".", "-">>
      [] c = 44 -> <<"-", "-", ".", ".", "-", "-">>
      [] c = 63 -> <<".", ".", "-", "-", ".", ".">>
      [] c = 39 -> <<".", "-", "-", "-", "-", ".">>
      [] c = 33 -> <<"-", ".", "-", ".", "-", "-">>
      [] c = 47 -> <<"-", ".", ".", "-", ".">>
      [] c = 40 -> <<"-", ".", "-", "-", ".">>
      [] c = 41 -> <<"-", ".", "-", "-", ".", "-">>
      [] c = 38 -> <<".", "-", ".", ".", ".">>
      [] c = 58 -> <<"-", "-", "-", ".", ".", ".">>
      [] c = 59 -> <<"-", ".", "-", ".", "-", ".">>
      [] c = 61 -> <<"-", ".", ".", ".", "-">>
      [] c = 43 -> <<".", "-", ".", "-", ".">>
      [] c = 45 -> <<"-", ".", ".", ".", ".", "-">>
      [] c = 95 -> <<".", ".", "-", "-", ".", "-">>
      [] c = 34 -> <<".", "-", ".", ".", "-", ".">>
      [] c = 36 -> <<".", ".", ".", "-", ".", ".", "-">>
      [] c = 64 -> <<".", "-", "-", ".", "-", ".">>
      [] c = 12593 -> <<".", "-", ".", ".">>
      [] c = 12596 -> <<".", ".", "-", ".">>
      [] c = 12599 -> <<"-", ".", ".", ".">>
      [] c = 12601 -> <<".", ".", ".", "-">>
      [] c = 12609 -> <<"-", "-">>
      [] c = 12610 -> <<".", "-", "-">>
      [] c = 12613 -> <<"-", "-", ".">>
      [] c = 12615 -> <<"-", ".", "-">>
      [] c = 12616 -> <<".", "-", "-", ".">>
      [] c = 12618 -> <<"-", ".", "-", ".">>
      [] c = 12619 -> <<"-", ".", ".", "-">>
      [] c = 12620 -> <<"-", "-", ".", ".">>
      [] c = 12621 -> <<"-", "-", "-">>
      [] c = 12622 -> <<".", "-", "-", "-">>
      [] c = 12623 -> <<".">>
      [] c = 12625 -> <<".", ".">>
      [] c = 12627 -> <<"-">>
      [] c = 12629 -> <<".", ".", ".">>
      [] c = 12631 -> <<".", "-">>
      [] c = 12635 -> <<"-", ".">>
      [] c = 12636 -> <<".", ".", ".", ".">>
      [] c = 12640 -> <<".", "-", ".">>
      [] c = 12641 -> <<"-", ".", ".">>
      [] c = 12643 -> <<".", ".", "-">>
      [] c = 12624 -> <<"-", "-", ".", "-">>
      [] c = 12628 -> <<"-", ".", "-", "-">>
      [] OTHER -> <<>>

initials == <<12593, 12594, 12596, 12599, 12600, 12601, 12609, 12610, 12611, 12613, 12614, 12615, 12616, 12617, 12618, 12619, 12620, 12621, 12622>>

medials == <<12623, 12624, 12625, 12626, 12627, 12628, 12629, 12630, 12631, 12632, 12633, 12634, 12635, 12636, 12637, 12638, 12639, 12640, 12641, 12642, 12643>>

finals == <<0, 12593, 12594, 12595, 12596, 12597, 12598, 12599, 12601, 12602, 12603, 12604, 12605, 12606, 12607, 12608, 12609, 12610, 12612, 12613, 12614, 12615, 12616, 12618, 12619, 12620, 12621, 12622>>

\* A lookup that finds the codes of the ASCII characters only.
HasMorseAscii(c) == c < 128 /\ MORSE_MAP(c) # <<>>

\* Truthiness of MORSE_MAP[c].
HasMorse(c) == MORSE_MAP(c) # <<>>

\* Doubled consonants of the initial position: ㄲ ㄸ ㅃ ㅆ ㅉ.
decomposeInitial(iChar) ==
    CASE iChar = 12594 -> <<12593, 12593>>
      [] iChar = 12600 -> <<12599, 12599>>
      [] iChar = 12611 -> <<12610, 12610>>
      [] iChar = 12614 -> <<12613, 12613>>
      [] iChar = 12617 -> <<12616, 12616>>
      [] OTHER -> <<iChar>>

\* A medial that is never split.
decomposeMedialWhole(mChar) == <<mChar>>

\* Vowels with a direct code are kept; compound vowels are split in two.
decomposeMedial(mChar) ==
    IF HasMorse(mChar) THEN <<mChar>>
    ELSE CASE mChar = 12632 -> <<12631, 12623>>
           [] mChar = 12633 -> <<12631, 12624>>
           [] mChar = 12634 -> <<12631, 12643>>
           [] mChar = 12637 -> <<12636, 12627>>
           [] mChar = 12638 -> <<12636, 12628>>
           [] mChar = 12639 -> <<12636, 12643>>
           [] mChar = 12642 -> <<12641, 12643>>
           [] mChar = 12626 -> <<12625, 12643>>
           [] mChar = 12630 -> <<12629, 12643>>
           [] OTHER -> <<mChar>>

\* Doubled consonants and clusters of the final position.
decomposeFinal(fChar) ==
    CASE fChar = 12594 -> <<12593, 12593>>
      [] fChar = 12595 -> <<12593, 12613>>
      [] fChar = 12597 -> <<12596, 12616>>
      [] fChar = 12598 -> <<12596, 12622>>
      [] fChar = 12602 -> <<12601, 12593>>
      [] fChar = 12603 -> <<12601, 12609>>
      [] fChar = 12604 -> <<12601, 12610>>
      [] fChar = 12605 -> <<12601, 12613>>
      [] fChar = 12606 -> <<12601, 12620>>
      [] fChar = 12607 -> <<12601, 12621>>
      [] fChar = 12608 -> <<12601, 12622>>
      [] fChar = 12612 -> <<12610, 12613>>
      [] fChar = 12614 -> <<12613, 12613>>
      [] OTHER -> <<fChar>>

\* First and last code unit of the Hangul Syllables block (0xAC00, 0xD7A3).
HANGUL_FIRST == 44032

HANGUL_LAST == 55203

\* char.match(/[가-힣]/)
IsHangul(c) == c >= HANGUL_FIRST /\ c <= HANGUL_LAST

\* A decomposition that leaves out the final consonant.
decomposeHangulOpen(c) ==
    IF c < HANGUL_FIRST \/ c > HANGUL_LAST THEN <<c>>
    ELSE LET offset  == c - HANGUL_FIRST
             initial == offset \div 588
             medial  == (offset % 588) \div 28
         IN  decomposeInitial(initials[initial + 1])
               \o decomposeMedial(medials[medial + 1])

decomposeHangul(c) ==
    IF c < HANGUL_FIRST \/ c > HANGUL_LAST THEN <<c>>
    ELSE LET offset  == c - HANGUL_FIRST
             initial == offset \div 588
             medial  == (offset % 588) \div 28
             final   == offset % 28
         IN  decomposeInitial(initials[initial + 1])
               \o decomposeMedial(medials[medial + 1])
               \o (IF final # 0 THEN decomposeFinal(finals[final + 1]) ELSE <<>>)

\* An upper-casing that changes nothing.
toUpperCaseNone(c) == c

\* String.prototype.toUpperCase on one code unit: the Latin small letters
\* a..z are the only code units of the modelled alphabets that it changes.
toUpperCase(c) == IF c >= 97 /\ c <= 122 THEN c - 32 ELSE c

\* jamos.forEach(jamo => { if (MORSE_MAP[jamo]) ... }): the jamo that have a code.
RECURSIVE KeepMapped(_)
KeepMapped(s) ==
    IF s = <<>> THEN <<>>
    ELSE (IF HasMorse(Head(s)) THEN <<Head(s)>> ELSE <<>>) \o KeepMapped(Tail(s))

\* MORSE_MAP[j] + MorseSymbol.SPACE for every kept jamo.
RECURSIVE JamoMorse(_)
JamoMorse(s) ==
    IF s = <<>> THEN <<>>
    ELSE MORSE_MAP(Head(s)) \o <<SPACE>> \o JamoMorse(Tail(s))

\* A lookup that treats a character without a code as a space.
textToMorseCharAsSpace(char) ==
    IF char = 32 \/ (~IsHangul(char) /\ ~HasMorse(char))
      THEN [decomposed |-> <<32>>, morse |-> <<WORD_SPACE, SPACE>>]
    ELSE IF IsHangul(char)
      THEN LET jamos == KeepMapped(decomposeHangul(char))
           IN  [decomposed |-> jamos, morse |-> JamoMorse(jamos)]
    ELSE [decomposed |-> <<char>>, morse |-> MORSE_MAP(char) \o <<SPACE>>]

\* The contribution of one character of upperText: the units pushed on
\* decomposedChars and the text appended to morseCode.
textToMorseChar(char) ==
    IF char = 32
      THEN [decomposed |-> <<32>>, morse |-> <<WORD_SPACE, SPACE>>]
    ELSE IF IsHangul(char)
      THEN LET jamos == KeepMapped(decomposeHangul(char))
           IN  [decomposed |-> jamos, morse |-> JamoMorse(jamos)]
    ELSE IF HasMorse(char)
      THEN [decomposed |-> <<char>>, morse |-> MORSE_MAP(char) \o <<SPACE>>]
    ELSE [decomposed |-> <<>>, morse |-> <<>>]

\* String.prototype.trim on a string of Morse symbols: SPACE is the only
\* white space that occurs.
RECURSIVE trimStart(_)
trimStart(s) ==
    IF s # <<>> /\ Head(s) = SPACE THEN trimStart(Tail(s)) ELSE s

RECURSIVE trimEnd(_)
trimEnd(s) ==
    IF s # <<>> /\ s[Len(s)] = SPACE THEN trimEnd(SubSeq(s, 1, Len(s) - 1)) ELSE s

trim(s) == trimEnd(trimStart(s))

\* A loop that puts the units of every character before those of the
\* characters visited earlier.
RECURSIVE textToMorseLoopReversed(_, _, _)
textToMorseLoopReversed(text, i, acc) ==
    IF Len(acc.decomposed) >= 0 /\ Len(acc.morse) >= 0 /\ i <= Len(text)
      THEN LET head == textToMorseChar(toUpperCase(text[i]))
           IN  textToMorseLoopReversed(text, i + 1,
                   [decomposed |-> head.decomposed \o acc.decomposed,
                    morse      |-> head.morse \o acc.morse])
      ELSE acc

\* for (let i = 0; i < upperText.length; i++) { ... }, with i counted from 1
\* here: acc holds decomposedChars and morseCode as the characters before i
\* left them (acc is evaluated before the next character is visited).
RECURSIVE textToMorseLoop(_, _, _)
textToMorseLoop(text, i, acc) ==
    IF Len(acc.decomposed) >= 0 /\ Len(acc.morse) >= 0 /\ i <= Len(text)
      THEN LET head == textToMorseChar(toUpperCase(text[i]))
           IN  textToMorseLoop(text, i + 1,
                               [decomposed |-> acc.decomposed \o head.decomposed,
                                morse      |-> acc.morse \o head.morse])
      ELSE acc

textToMorse(text) ==
    LET r == textToMorseLoop(text, 1, [decomposed |-> <<>>, morse |-> <<>>])
    IN  [original |-> text, decomposed |-> r.decomposed, morse |-> trim(r.morse)]

-----------------------------------------------------------------------------
(* src/services/audioEngine.ts: generateTimeline                           *)

\* DOT_TIME = 0.14 s
DOT_TIME == 140000

\* duration: 2.0 of the padding silence
PADDING == 2000000

\* unitTime * 4: the length of a dash in units
DASH_UNITS == 4

\* unitTime * 3: the inter-character gap in units
CHAR_GAP_UNITS == 3

\* unitTime * 7: the word space in units
WORD_GAP_UNITS == 7

\* A unit time that ignores the theme's tempo.
unitTimeFixed(theme) == DOT_TIME

\* const unitTime = this.DOT_TIME / theme.tempoMultiplier (tempo in
\* hundredths). The division is applied as it stands: a negative tempo gives
\* a negative unit time (a tempo of 0, which gives Infinity, is not among
\* the themes of the model).
unitTimeOf(theme) ==
    IF theme.tempoMultiplier > 0
      THEN (DOT_TIME * 100) \div theme.tempoMultiplier
      ELSE 0 - ((DOT_TIME * 100) \div (0 - theme.tempoMultiplier))

\* Counters kept on the engine across calls instead of reset per call: they
\* start at the number of units of the stored timeline, where the previous
\* call left them.
CarriedCounters ==
    LET units == Cardinality({i \in 1..Len(events) : events[i].symbol = " "})
    IN  [charIndex |-> units, noteSequence |-> units]

\* let charIndex = 0; let noteSequence = 0: the counters of the getFrequency
\* closure are locals of each call.
FreshCounters == [charIndex |-> 0, noteSequence |-> 0]

\* An octave shift of four octaves.
octaveShiftFar(combinedHash) == IF combinedHash % 3 = 0 THEN 48 ELSE 0

\* The octave shift of getFrequency.
octaveShiftOf(combinedHash) ==
    IF combinedHash % 3 = 0
      THEN LET shiftType == combinedHash % 5
           IN  IF shiftType = 0 THEN 12
               ELSE IF shiftType = 1 THEN -12
               ELSE IF shiftType = 2 THEN 24
               ELSE 0
      ELSE 0

\* The fine tuning of getFrequency.
fineTuneOf(combinedHash) ==
    IF combinedHash % 7 = 0 THEN (combinedHash % 7) - 3 ELSE 0

\* The number NaN.
NaN == [nan |-> TRUE]

\* getFrequency(char), with pos = charIndex++ and noteSequence++ already
\* applied: pos is the old charIndex, noteSequence the incremented counter.
\* With an empty scale, pos % 0 is NaN, theme.scale[NaN] is undefined and
\* the returned frequency is NaN.
getFrequency(char, pos, noteSequence, textLength, theme) ==
    LET charCode     == char
        hash1        == (charCode * 17 + pos * 31) % 1000
        hash2        == (textLength * 7 + noteSequence * 13) % 1000
        combinedHash == (hash1 + hash2) % 1000
        n            == Len(theme.scale)
    IN  IF n = 0 THEN NaN
        ELSE LET baseIndex    == pos % n
                 hashIndex    == combinedHash % n
                 scaleIndex   == (baseIndex + hashIndex) % n
                 semitoneOffset == theme.scale[scaleIndex + 1]
             IN  [base      |-> theme.baseFrequency,
                  semitones |-> semitoneOffset + octaveShiftOf(combinedHash)
                                  + fineTuneOf(combinedHash)]

\* events.push(e); currentTime += advance
push(st, e, advance) ==
    [st EXCEPT !.events = Append(@, e), !.currentTime = @ + advance]

\* A word space as short as the inter-character gap.
wordSpaceShort(st, unitTime) ==
    push(st, [type |-> "silence", startTime |-> st.currentTime,
              duration |-> unitTime * CHAR_GAP_UNITS, symbol |-> WORD_SPACE],
         unitTime * CHAR_GAP_UNITS)

\* A word space that carries the space as its source character.
wordSpaceTagged(st, unitTime) ==
    push(st, [type |-> "silence", startTime |-> st.currentTime,
              duration |-> unitTime * WORD_GAP_UNITS, symbol |-> WORD_SPACE,
              char |-> 32],
         unitTime * WORD_GAP_UNITS)

\* Word space (7 units)
wordSpace(st, unitTime) ==
    push(st, [type |-> "silence", startTime |-> st.currentTime,
              duration |-> unitTime * WORD_GAP_UNITS, symbol |-> WORD_SPACE],
         unitTime * WORD_GAP_UNITS)

dotNote(st, unitTime, freq, char) ==
    push(st, [type |-> "note", startTime |-> st.currentTime,
              duration |-> unitTime, symbol |-> DOT,
              frequency |-> freq, char |-> char],
         unitTime)

\* A dash of four reference dot times, not scaled by the tempo.
dashNoteFlat(st, unitTime, freq, char) ==
    push(st, [type |-> "note", startTime |-> st.currentTime,
              duration |-> DOT_TIME * DASH_UNITS, symbol |-> DASH,
              frequency |-> freq, char |-> char],
         DOT_TIME * DASH_UNITS)

dashNote(st, unitTime, freq, char) ==
    push(st, [type |-> "note", startTime |-> st.currentTime,
              duration |-> unitTime * DASH_UNITS, symbol |-> DASH,
              frequency |-> freq, char |-> char],
         unitTime * DASH_UNITS)

\* An inter-element gap that does not advance currentTime.
elementGapStill(st, unitTime) ==
    push(st, [type |-> "silence", startTime |-> st.currentTime,
              duration |-> unitTime, symbol |-> NULL],
         0)

\* Inter-element gap (1 unit)
elementGap(st, unitTime) ==
    push(st, [type |-> "silence", startTime |-> st.currentTime,
              duration |-> unitTime, symbol |-> NULL],
         unitTime)

\* A gap after every symbol, the last one included.
hasElementGapAlways(i, code) == TRUE

\* if (i < code.length - 1), with i counted from 1 here
hasElementGap(i, code) == i < Len(code)

\* An inter-character gap that advances currentTime by more than it lasts.
charGapDrift(st, unitTime) ==
    push(st, [type |-> "silence", startTime |-> st.currentTime,
              duration |-> unitTime * CHAR_GAP_UNITS, symbol |-> SPACE],
         unitTime * WORD_GAP_UNITS)

\* Inter-character gap (3 units)
charGap(st, unitTime) ==
    push(st, [type |-> "silence", startTime |-> st.currentTime,
              duration |-> unitTime * CHAR_GAP_UNITS, symbol |-> SPACE],
         unitTime * CHAR_GAP_UNITS)

\* Add padding at end
padding(st) ==
    push(st, [type |-> "silence", startTime |-> st.currentTime,
              duration |-> PADDING, symbol |-> NULL],
         0)

\* for (let i = 0; i < code.length; i++) { ... }: the symbols are visited in
\* order, each on the state the previous one left (st is evaluated before
\* the next visit).
RECURSIVE emitCode(_, _, _, _, _, _)
emitCode(st, code, i, unitTime, freq, char) ==
    IF st.currentTime \in Int /\ i <= Len(code)
      THEN LET symbol == code[i]
               s1 == IF symbol = DOT THEN dotNote(st, unitTime, freq, char)
                     ELSE IF symbol = DASH THEN dashNote(st, unitTime, freq, char)
                     ELSE st
               s2 == IF hasElementGap(i, code) THEN elementGap(s1, unitTime) ELSE s1
           IN  emitCode(s2, code, i + 1, unitTime, freq, char)
      ELSE st

\* A body in which a word space advances the position index as well.
emitUnitCountingSpaces(st, char, unitTime, textLength, theme) ==
    IF char = 32
      THEN wordSpace([st EXCEPT !.charIndex = @ + 1, !.noteSequence = @ + 1],
                     unitTime)
    ELSE LET res  == textToMorse(<<char>>)
             code == trim(res.morse)
             pos  == st.charIndex
             seq  == st.noteSequence + 1
             freq == getFrequency(char, pos, seq, textLength, theme)
             s1   == [st EXCEPT !.charIndex = pos + 1, !.noteSequence = seq]
         IN  charGap(emitCode(s1, code, 1, unitTime, freq, char), unitTime)

\* The body of decomposed.forEach(char => ...) for one unit.
emitUnit(st, char, unitTime, textLength, theme) ==
    IF char = 32 THEN wordSpace(st, unitTime)
    ELSE LET res  == textToMorse(<<char>>)
             code == trim(res.morse)
             pos  == st.charIndex
             seq  == st.noteSequence + 1
             freq == getFrequency(char, pos, seq, textLength, theme)
             s1   == [st EXCEPT !.charIndex = pos + 1, !.noteSequence = seq]
         IN  charGap(emitCode(s1, code, 1, unitTime, freq, char), unitTime)

\* decomposed.forEach(char => ...): the units are visited in order, each on
\* the state the previous one left (st is evaluated before the next visit).
RECURSIVE emitUnits(_, _, _, _, _)
emitUnits(st, decomposed, unitTime, textLength, theme) ==
    IF st.currentTime \in Int /\ decomposed # <<>>
      THEN emitUnits(emitUnit(st, Head(decomposed), unitTime, textLength, theme),
                     Tail(decomposed), unitTime, textLength, theme)
      ELSE st

\* The event list generateTimeline(text, theme) builds, stores and returns.
generateTimeline(text, theme) ==
    LET decomposed == textToMorse(text).decomposed
        unitTime   == unitTimeOf(theme)
        st0        == [events |-> <<>>, currentTime |-> 0,
                       charIndex |-> FreshCounters.charIndex,
                       noteSequence |-> FreshCounters.noteSequence]
    IN  padding(emitUnits(st0, decomposed, unitTime, Len(text), theme)).events

-----------------------------------------------------------------------------
(* Themes (src/App.tsx: scalePresets, buildAutoTheme, buildManualTheme).   *)

\* scalePresets['major'], also DEFAULT_THEME.scale
MajorScale == <<0, 2, 4, 7, 9>>

\* scalePresets['minor']
MinorScale == <<0, 3, 5, 7, 10>>

\* DEFAULT_THEME, as buildAutoTheme returns it for a neutral text.
DEFAULT_THEME ==
    [tempoMultiplier |-> 100, baseFrequency |-> 440, scale |-> MajorScale,
     waveform |-> "sine", instrument |-> "piano"]

\* buildAutoTheme: the 'Melancholic' branch.
MelancholicTheme ==
    [tempoMultiplier |-> 80, baseFrequency |-> 400, scale |-> MinorScale,
     waveform |-> "sine", instrument |-> "piano"]

\* buildManualTheme with selectedTempo = 0.5 and with selectedTempo = 2.0.
SlowTheme == [DEFAULT_THEME EXCEPT !.tempoMultiplier = 50]

FastTheme == [DEFAULT_THEME EXCEPT !.tempoMultiplier = 200]

Themes == {DEFAULT_THEME, MelancholicTheme, SlowTheme, FastTheme}

-----------------------------------------------------------------------------
(* Inputs.                                                                 *)

\* 'A', 'B', 'O', 'S', 'a', the space, '#' (no Morse code) and the
\* syllable U+D55C (initial, medial and final jamo).
Alphabet == {65, 66, 79, 83, 97, 32, 35, 54620}

\* A character with no Morse mapping that is not a space.
Unmapped == {c \in Alphabet : c # 32 /\ textToMorse(<<c>>).decomposed = <<>>}

Texts == UNION {[1..n -> Alphabet] : n \in 0..MaxLen}

SOS == <<83, 79, 83>>

\* The texts and themes the engine is driven with.

\* "TE" and "TA": two short texts of one length that share the unit 'T'.
EngineTexts == {<<84, 69>>, <<84, 65>>}

\* The instruments of playNoteWithInstrument ('castanets' and 'sine' take
\* its default branch).
Instruments == {"piano", "marimba", "violin", "chime", "castanets", "sine"}

\* buildManualTheme with selectedInstrument = inst.
InstrumentTheme(inst) == [DEFAULT_THEME EXCEPT !.instrument = inst]

EngineThemes ==
    {DEFAULT_THEME, MelancholicTheme, InstrumentTheme("marimba"),
     InstrumentTheme("castanets")}

\* text with character c inserted before position i (1..Len(text)+1).
InsertAt(text, i, c) ==
    SubSeq(text, 1, i - 1) \o <<c>> \o SubSeq(text, i, Len(text))

-----------------------------------------------------------------------------
(* The engine (src/services/audioEngine.ts) and the browser around it.     *)

\* The timelines of the calls the engine is driven with, computed once.
EngineTimelines ==
    {[text |-> text, theme |-> DEFAULT_THEME,
      result |-> generateTimeline(text, DEFAULT_THEME)] : text \in EngineTexts}

\* generateTimeline(text, theme), looked up in EngineTimelines where it is
\* listed there.
timelineOf(text, theme) ==
    LET known == {r \in EngineTimelines : r.text = text /\ r.theme = theme}
    IN  IF known # {} THEN (CHOOSE r \in known : TRUE).result
        ELSE generateTimeline(text, theme)

\* The empty value '' of a numeric selection.
EmptyValue == [empty |-> TRUE]

\* useState initial values: inputText '', isAutoTheme true, selectedBaseFreq
\* '', selectedTempo '', selectedScale '', selectedInstrument 'piano'.
NoSelection ==
    [inputText |-> <<>>, isAutoTheme |-> TRUE, selectedBaseFreq |-> EmptyValue,
     selectedTempo |-> EmptyValue, selectedScale |-> "",
     selectedInstrument |-> "piano"]

NoCall ==
    [made |-> FALSE, again |-> FALSE, busy |-> FALSE, text |-> <<>>,
     theme |-> DEFAULT_THEME, result |-> <<>>]

\* State after `new AudioEngine()`.
InitEngine ==
    /\ audioCtx = 0
    /\ masterGain = 0
    /\ melodyGain = 0
    /\ padGain = 0
    /\ padOscillators = <<>>
    /\ events = <<>>
    /\ isPlaying = FALSE
    /\ timerID = 0
    /\ contexts = <<>>
    /\ timers = {}
    /\ tones = {}
    /\ completed = <<>>
    /\ plays = 0
    /\ stopped = {}
    /\ ctxTime = 0
    /\ rejections = {}
    /\ failed = {}
    /\ caller = "none"
    /\ appIsPlaying = FALSE
    /\ firstCall = NoCall
    /\ lastCall = NoCall

\* State after the App is mounted: a new engine, no text and no selection.
Init == InitEngine /\ app = NoSelection

\* A generateTimeline that also resets the playback state.
GenerateTimelineResetting(text, theme) ==
    /\ events' = timelineOf(text, theme)
    /\ lastCall' = [made |-> TRUE, again |-> lastCall.made, busy |-> isPlaying,
                    text |-> text, theme |-> theme, result |-> events']
    /\ firstCall' = IF firstCall.made THEN firstCall ELSE lastCall'
    /\ isPlaying' = FALSE
    /\ timerID' = 0
    /\ UNCHANGED <<audioCtx, masterGain, melodyGain, padGain, padOscillators,
                   contexts, timers, tones, completed, plays, stopped, ctxTime,
                   rejections, failed, caller, appIsPlaying, app>>

\* generateTimeline(text, theme): builds the list, stores it in this.events
\* and returns it (the returned list is lastCall.result).
GenerateTimeline(text, theme) ==
    /\ events' = timelineOf(text, theme)
    /\ lastCall' = [made |-> TRUE, again |-> lastCall.made, busy |-> isPlaying,
                    text |-> text, theme |-> theme, result |-> events']
    /\ firstCall' = IF firstCall.made THEN firstCall ELSE lastCall'
    /\ UNCHANGED engineVars

\* A stopDrone that keeps the oscillators it stops on the list.
stopDroneKeeping(oscs) == oscs

\* stopDrone(): every tracked oscillator is told to stop and the list is
\* emptied (the pad gain fade is not part of the state).
stopDrone(oscs) == <<>>

\* const scale = theme.scale && theme.scale.length > 0 ? theme.scale : [0, 4, 7]
droneScale(theme) == IF Len(theme.scale) > 0 THEN theme.scale ELSE <<0, 4, 7>>

\* startDrone(theme) on context ctx, with idx1 the random pick.
startDrone(ctx, theme, idx1) ==
    LET scale == droneScale(theme)
        n     == Len(scale)
        idx2  == (idx1 + 1) % n
        idx3  == (idx1 + 2) % n
    IN  <<[ctx |-> ctx, idx |-> idx1], [ctx |-> ctx, idx |-> idx2],
          [ctx |-> ctx, idx |-> idx3]>>

Min(a, b) == IF a < b THEN a ELSE b

\* playNoteWithInstrument: the automation calls on the note's gain, in call
\* order, as [at, value] with the gain in hundredths and the times relative
\* to the play's origin.
envelope(instrument, noteStart, noteEnd, duration) ==
    IF instrument = "piano"
      THEN LET attack == 8000
               decay  == Min((duration * 4) \div 10, 150000)
           IN  <<[at |-> noteStart, value |-> 0],
                 [at |-> noteStart + attack, value |-> 60],
                 [at |-> noteStart + attack + decay, value |-> 20],
                 [at |-> noteEnd, value |-> 0]>>
    ELSE IF instrument = "marimba"
      THEN LET attack  == 30000
               release == Min((duration * 12) \div 10, 250000)
           IN  <<[at |-> noteStart, value |-> 0],
                 [at |-> noteStart + attack, value |-> 65],
                 [at |-> noteEnd - release, value |-> 50],
                 [at |-> noteEnd, value |-> 0]>>
    ELSE IF instrument = "violin"
      THEN LET attack  == 50000
               release == 80000
           IN  <<[at |-> noteStart, value |-> 0],
                 [at |-> noteStart + attack, value |-> 40],
                 [at |-> noteEnd - release, value |-> 35],
                 [at |-> noteEnd, value |-> 0]>>
    ELSE IF instrument = "chime"
      THEN LET attack  == 12000
               release == Min((duration * 5) \div 10, 200000)
           IN  <<[at |-> noteStart, value |-> 0],
                 [at |-> noteStart + attack, value |-> 55],
                 [at |-> noteEnd - release, value |-> 50],
                 [at |-> noteEnd, value |-> 0]>>
    ELSE LET attack  == 20000
             release == 100000
         IN  <<[at |-> noteStart, value |-> 0],
               [at |-> noteStart + attack, value |-> 70],
               [at |-> noteEnd - release, value |-> 70],
               [at |-> noteEnd, value |-> 0]>>

\* The last point of an automation timeline: the timeline is ordered by
\* time, and of two points at one time the one set later comes later.
envelopeEnd(points) ==
    LET last == CHOOSE i \in 1..Len(points) :
                    \A j \in 1..Len(points) :
                        \/ points[j].at < points[i].at
                        \/ (points[j].at = points[i].at /\ j <= i)
    IN  points[last]

\* const instrument = theme.instrument ?? 'sine'
instrumentOf(theme) == theme.instrument

\* The tone of one note whose envelope ends when its oscillator is stopped.
toneUntilStop(p, ctx, event, instrument) ==
    LET noteStart == event.startTime
        noteEnd   == noteStart + event.duration
    IN  [play |-> p, ctx |-> ctx, noteStart |-> noteStart, noteEnd |-> noteEnd,
         frequency |-> event.frequency,
         envelopeEnd |-> [at |-> noteEnd + 100000, value |-> 0]]

\* playNoteWithInstrument(ctx, theme, event, startTime, instrument): the tone
\* of one note, from noteStart = origin + startTime to noteEnd = noteStart +
\* duration (both relative to the play's origin here).
playNoteWithInstrument(p, ctx, event, instrument) ==
    LET noteStart == event.startTime
        noteEnd   == noteStart + event.duration
    IN  [play |-> p, ctx |-> ctx, noteStart |-> noteStart, noteEnd |-> noteEnd,
         frequency |-> event.frequency,
         envelopeEnd |-> envelopeEnd(envelope(instrument, noteStart, noteEnd,
                                              event.duration))]

\* Tones of the first timeline generated on the engine, not of the stored one.
scheduleFirst(p, ctx, evs, instrument) ==
    {playNoteWithInstrument(p, ctx, firstCall.result[i], instrument) :
        i \in {j \in 1..Len(firstCall.result) : firstCall.result[j].type = "note"}}

\* The tones play() schedules on ctx for the stored events: one per note
\* event with a frequency.
scheduleNotes(p, ctx, evs, instrument) ==
    {playNoteWithInstrument(p, ctx, evs[i], instrument) :
        i \in {j \in 1..Len(evs) : evs[j].type = "note"}}

\* (totalDuration + 0.5) * 1000 ms: the lead of the cleanup timer
CLEANUP_LEAD == 500000

\* setTimeout(..., 2000): the drone fade before the teardown
FADE_TIME == 2000000

\* lastEvent ? lastEvent.startTime + lastEvent.duration : 0
totalDuration(evs) ==
    IF evs = <<>> THEN 0
    ELSE evs[Len(evs)].startTime + evs[Len(evs)].duration

\* The pending timers of play p in the given stage.
timersOf(p, stage) == {tm \in timers : tm.play = p /\ tm.stage = stage}

\* play(theme, onComplete); the callback is identified by the play's id.
Play(theme) ==
    /\ plays < MaxPlays
    /\ LET p      == plays + 1
           fresh  == audioCtx = 0
           ctx    == IF fresh THEN Len(contexts) + 1 ELSE audioCtx
       IN  \* initContext()
           /\ contexts' = IF fresh THEN Append(contexts, "running") ELSE contexts
           /\ audioCtx' = ctx
           /\ ctxTime' = IF fresh THEN 0 ELSE ctxTime
           /\ masterGain' = IF fresh THEN ctx ELSE masterGain
           /\ melodyGain' = IF fresh THEN ctx ELSE melodyGain
           /\ padGain' = IF fresh THEN ctx ELSE padGain
           /\ isPlaying' = TRUE
           \* startDrone(theme)
           /\ \E idx1 \in 0..(Len(droneScale(theme)) - 1) :
                  padOscillators' =
                      stopDrone(padOscillators) \o startDrone(ctx, theme, idx1)
           \* this.events.forEach(... playNoteWithInstrument ...)
           /\ tones' = tones \cup scheduleNotes(p, ctx, events, instrumentOf(theme))
           \* this.timerID = window.setTimeout(...)
           /\ timerID' = p
           /\ timers' = timers \cup {[play |-> p, stage |-> "outer",
                                      delay |-> totalDuration(events) + CLEANUP_LEAD]}
           /\ plays' = p
    /\ caller' = "play"
    \* setIsPlaying(true) of the caller
    /\ appIsPlaying' = TRUE
    /\ UNCHANGED app
    /\ UNCHANGED <<events, completed, stopped, rejections, failed, firstCall,
                   lastCall>>

\* play(theme, onComplete) where no AudioContext can be constructed: the
\* constructor call of initContext throws, so the promise of play() is
\* rejected before isPlaying is set.
PlayUnavailable(theme) ==
    /\ plays < MaxPlays
    /\ audioCtx = 0
    /\ plays' = plays + 1
    /\ failed' = failed \cup {plays + 1}
    /\ caller' = "play"
    \* setIsPlaying(true) of the caller, before the call; the rejected
    \* promise is neither awaited nor handled
    /\ appIsPlaying' = TRUE
    /\ UNCHANGED app
    /\ UNCHANGED <<audioCtx, masterGain, melodyGain, padGain, padOscillators,
                   events, isPlaying, timerID, contexts, timers, tones,
                   completed, stopped, ctxTime, rejections, firstCall, lastCall>>

\* A stop() that leaves the context running.
stopContextsKept == contexts

\* The effect of the body of stop() on the contexts: suspend() and close()
\* are requested on the current context; a context whose close() was already
\* requested rejects the second request.
stopContexts ==
    IF audioCtx # 0 /\ contexts[audioCtx] = "running"
      THEN [contexts EXCEPT ![audioCtx] = "closing"]
      ELSE contexts

\* The requests of stop() that are rejected: suspend() and close() on a
\* context whose close() was requested before.
stopRejections ==
    IF audioCtx # 0 /\ contexts[audioCtx] # "running"
      THEN rejections \cup {audioCtx}
      ELSE rejections

\* clearTimeout(this.timerID) when timerID is set.
stopTimers(pending) ==
    IF timerID # 0
      THEN {tm \in pending : ~(tm.play = timerID /\ tm.stage = "outer")}
      ELSE pending

\* The plays stopped so far, after a stop() that runs now.
stopMarks == IF isPlaying THEN stopped \cup {plays} ELSE stopped

\* stop()
Stop ==
    /\ isPlaying' = FALSE
    /\ padOscillators' = stopDrone(padOscillators)
    /\ contexts' = stopContexts
    /\ rejections' = stopRejections
    /\ timers' = stopTimers(timers)
    /\ timerID' = 0
    /\ stopped' = stopMarks
    /\ caller' = "stop"
    \* setIsPlaying(false) of the caller
    /\ appIsPlaying' = FALSE
    /\ UNCHANGED app
    /\ UNCHANGED <<audioCtx, masterGain, melodyGain, padGain, events, tones,
                   completed, plays, ctxTime, failed, firstCall, lastCall>>

\* A cleanup callback that schedules the stored notes again.
CleanupTimerReplaying(p) ==
    /\ timersOf(p, "outer") # {}
    /\ padOscillators' = stopDrone(padOscillators)
    /\ tones' = tones \cup scheduleNotes(p, audioCtx, events, "sine")
    /\ timers' = (timers \ timersOf(p, "outer"))
                   \cup {[play |-> p, stage |-> "inner", delay |-> FADE_TIME]}
    /\ UNCHANGED <<audioCtx, masterGain, melodyGain, padGain, events,
                   isPlaying, timerID, contexts, completed, plays, stopped,
                   ctxTime, rejections, failed, caller, appIsPlaying, app,
                   firstCall, lastCall>>

\* The callback of the timer set by play() p: stopDrone(), then a second
\* timer of 2000 ms whose handle is not kept.
CleanupTimer(p) ==
    /\ timersOf(p, "outer") # {}
    /\ padOscillators' = stopDrone(padOscillators)
    /\ timers' = (timers \ timersOf(p, "outer"))
                   \cup {[play |-> p, stage |-> "inner", delay |-> FADE_TIME]}
    /\ UNCHANGED <<audioCtx, masterGain, melodyGain, padGain, events,
                   isPlaying, timerID, contexts, tones, completed, plays,
                   stopped, ctxTime, rejections, failed, caller, appIsPlaying,
                   app, firstCall, lastCall>>

\* The callback of the second timer of play() p: this.stop(); onComplete().
CompleteTimer(p) ==
    /\ timersOf(p, "inner") # {}
    /\ isPlaying' = FALSE
    /\ padOscillators' = stopDrone(padOscillators)
    /\ contexts' = stopContexts
    /\ rejections' = stopRejections
    /\ timers' = stopTimers(timers \ timersOf(p, "inner"))
    /\ timerID' = 0
    /\ stopped' = stopMarks
    /\ completed' = Append(completed, [play |-> p, afterStop |-> p \in stopped])
    \* onComplete: setIsPlaying(false)
    /\ appIsPlaying' = FALSE
    /\ UNCHANGED app
    /\ UNCHANGED <<audioCtx, masterGain, melodyGain, padGain, events, tones,
                   plays, ctxTime, failed, caller, firstCall, lastCall>>

\* A close() resolution whose callback keeps the reference to the context.
CloseResolvedKept(c) ==
    /\ c \in 1..Len(contexts)
    /\ contexts[c] = "closing"
    /\ contexts' = [contexts EXCEPT ![c] = "closed"]
    /\ tones' = {t \in tones : t.ctx # c}
    /\ UNCHANGED <<audioCtx, ctxTime, masterGain, melodyGain, padGain,
                   padOscillators, events, isPlaying, timerID, timers,
                   completed, plays, stopped, rejections, failed, caller,
                   appIsPlaying, app, firstCall, lastCall>>

\* The promise of close() on context c resolves: the context is closed, what
\* was scheduled on it is released, and the callback sets this.audioCtx = null.
CloseResolved(c) ==
    /\ c \in 1..Len(contexts)
    /\ contexts[c] = "closing"
    /\ contexts' = [contexts EXCEPT ![c] = "closed"]
    /\ tones' = {t \in tones : t.ctx # c}
    /\ audioCtx' = 0
    /\ ctxTime' = 0
    /\ UNCHANGED <<masterGain, melodyGain, padGain, padOscillators, events,
                   isPlaying, timerID, timers, completed, plays, stopped,
                   rejections, failed, caller, appIsPlaying, app, firstCall,
                   lastCall>>

\* The audio clock of the current context advances while it is running.
Tick ==
    /\ audioCtx # 0
    /\ contexts[audioCtx] = "running"
    /\ ctxTime < MaxClock
    /\ ctxTime' = ctxTime + 1
    /\ UNCHANGED <<audioCtx, masterGain, melodyGain, padGain, padOscillators,
                   events, isPlaying, timerID, contexts, timers, tones,
                   completed, plays, stopped, rejections, failed, caller,
                   appIsPlaying, app, firstCall, lastCall>>

\* getCurrentTime()
getCurrentTime == IF audioCtx # 0 THEN ctxTime ELSE 0

\* getRelTime(startedAt)
getRelTime(startedAt) == IF audioCtx = 0 THEN 0 ELSE ctxTime - startedAt

Next ==
    \/ \E text \in EngineTexts : GenerateTimeline(text, DEFAULT_THEME)
    \/ \E theme \in EngineThemes : Play(theme)
    \/ Stop
    \/ \E p \in 1..MaxPlays : CleanupTimer(p)
    \/ \E p \in 1..MaxPlays : CompleteTimer(p)
    \/ \E c \in 1..MaxPlays : CloseResolved(c)

Spec == Init /\ [][Next]_vars

-----------------------------------------------------------------------------
(* The playback lifecycle on its own: play (with a context that can or     *)
(* cannot be constructed), stop, the two timers, the close() resolution    *)
(* and the audio clock, on the timeline of a new engine or of a text of    *)
(* spaces.                                                                 *)

\* White-space-only texts.
BlankTexts == {<<32>>, <<32, 32>>}

NextLifecycle ==
    \/ \E text \in BlankTexts : GenerateTimeline(text, DEFAULT_THEME)
    \/ Play(DEFAULT_THEME)
    \/ PlayUnavailable(DEFAULT_THEME)
    \/ Stop
    \/ \E p \in 1..MaxPlays : CleanupTimer(p)
    \/ \E p \in 1..MaxPlays : CompleteTimer(p)
    \/ \E c \in 1..MaxPlays : CloseResolved(c)
    \/ Tick

SpecLifecycle == Init /\ [][NextLifecycle]_vars

-----------------------------------------------------------------------------
(* The timeline generator on its own: a first call with any text and any   *)
(* theme, then calls whose arguments are related to the first call's: the  *)
(* same arguments, the same text at twice the tempo, or the same theme     *)
(* with one unmapped character inserted into the text.                     *)

TempoDoubled(th1, th2) ==
    th2 = [th1 EXCEPT !.tempoMultiplier = 2 * th1.tempoMultiplier]

Inserted(t1, t2) ==
    \E i \in 1..(Len(t1) + 1), c \in Unmapped : t2 = InsertAt(t1, i, c)

FirstGenerate ==
    /\ ~firstCall.made
    /\ \E text \in Texts, theme \in Themes : GenerateTimeline(text, theme)

RepeatGenerate ==
    /\ firstCall.made
    /\ GenerateTimeline(firstCall.text, firstCall.theme)

DoubledGenerate ==
    /\ firstCall.made
    /\ \E theme \in Themes :
          /\ TempoDoubled(firstCall.theme, theme)
          /\ GenerateTimeline(firstCall.text, theme)

InsertedGenerate ==
    /\ firstCall.made
    /\ \E i \in 1..(Len(firstCall.text) + 1), c \in Unmapped :
          /\ Len(firstCall.text) < MaxLen
          /\ GenerateTimeline(InsertAt(firstCall.text, i, c), firstCall.theme)

NextTimeline ==
    \/ FirstGenerate
    \/ RepeatGenerate
    \/ DoubledGenerate
    \/ InsertedGenerate

SpecTimeline == Init /\ [][NextTimeline]_vars

-----------------------------------------------------------------------------
(* The timeline generator called with a theme that is not well formed.     *)

\* Themes with a negative tempo, a zero or negative base frequency, or an
\* empty scale.
MalformedThemes ==
    {[DEFAULT_THEME EXCEPT !.tempoMultiplier = -100],
     [DEFAULT_THEME EXCEPT !.baseFrequency = 0],
     [DEFAULT_THEME EXCEPT !.baseFrequency = -440],
     [DEFAULT_THEME EXCEPT !.scale = <<>>]}

GenerateMalformed ==
    /\ ~firstCall.made
    /\ \E text \in Texts, theme \in MalformedThemes :
          GenerateTimeline(text, theme)

SpecMalformed == Init /\ [][GenerateMalformed]_vars

-----------------------------------------------------------------------------
(* The drone over play/stop cycles, with scales of 1, 2, 3 and 5 steps, on *)
(* the timeline of a new engine.                                           *)

DroneThemes ==
    {[DEFAULT_THEME EXCEPT !.scale = scale] :
        scale \in {<<0>>, <<0, 7>>, <<0, 4, 7>>, MajorScale}}

NextDrone ==
    \/ \E theme \in DroneThemes : Play(theme)
    \/ Stop
    \/ \E p \in 1..MaxPlays : CleanupTimer(p)
    \/ \E p \in 1..MaxPlays : CompleteTimer(p)
    \/ \E c \in 1..MaxPlays : CloseResolved(c)

SpecDrone == Init /\ [][NextDrone]_vars

-----------------------------------------------------------------------------
(* The timeline generator called with one Hangul syllable, for every       *)
(* syllable of the block U+AC00..U+D7A3.                                   *)

Syllables == HANGUL_FIRST..HANGUL_LAST

GenerateSyllable ==
    /\ ~firstCall.made
    /\ \E c \in Syllables : GenerateTimeline(<<c>>, DEFAULT_THEME)

SpecHangul == Init /\ [][GenerateSyllable]_vars

-----------------------------------------------------------------------------
(* The timeline generator called with a text in small letters and then     *)
(* with the same text in capital letters.                                  *)

\* 'a', 'B', 's', '1', '?' and the space.
CaseAlphabet == {97, 66, 115, 49, 63, 32}

CaseTexts == UNION {[1..n -> CaseAlphabet] : n \in 0..MaxLen}

\* The text with A..Z replaced by a..z.
lowercase(text) ==
    [i \in 1..Len(text) |->
        IF text[i] >= 65 /\ text[i] <= 90 THEN text[i] + 32 ELSE text[i]]

\* The text with a..z replaced by A..Z.
uppercase(text) ==
    [i \in 1..Len(text) |->
        IF text[i] >= 97 /\ text[i] <= 122 THEN text[i] - 32 ELSE text[i]]

LowerGenerate ==
    /\ ~firstCall.made
    /\ \E text \in CaseTexts, theme \in {DEFAULT_THEME, MelancholicTheme} :
          GenerateTimeline(lowercase(text), theme)

UpperGenerate ==
    /\ firstCall.made
    /\ ~lastCall.again
    /\ \E text \in CaseTexts :
          /\ lowercase(text) = firstCall.text
          /\ GenerateTimeline(uppercase(text), firstCall.theme)

NextCase ==
    \/ LowerGenerate
    \/ UpperGenerate

SpecCase == Init /\ [][NextCase]_vars

-----------------------------------------------------------------------------
(* The App (src/App.tsx): the themes it builds from the text and from the  *)
(* selections, and the preview effect that passes them to the engine.      *)

\* The names of scalePresets.
ScalePresetNames ==
    {"major", "minor", "dreamy", "dark", "serene", "gentle", "cozy",
     "peaceful", "tranquil"}

\* scalePresets[name], for a name of ScalePresetNames.
scalePresets(name) ==
    CASE name = "major"    -> MajorScale
      [] name = "minor"    -> MinorScale
      [] name = "dreamy"   -> <<0, 2, 5, 9, 11>>
      [] name = "dark"     -> <<0, 1, 4, 6, 10>>
      [] name = "serene"   -> <<0, 2, 5, 7, 9>>
      [] name = "gentle"   -> <<0, 3, 5, 8, 10>>
      [] name = "cozy"     -> <<0, 2, 4, 6, 9>>
      [] name = "peaceful" -> <<0, 3, 6, 8, 11>>
      [] name = "tranquil" -> <<0, 2, 4, 7, 10>>

\* A number as the value of a numeric selection.
Num(v) == [num |-> v]

\* stylePresets: the waveform, scale, tempo, base frequency and instrument of
\* every preset.
stylePresets ==
    {[waveform |-> "triangle", scale |-> "dreamy", tempo |-> 90,
      baseFreq |-> 420, instrument |-> "marimba"],
     [waveform |-> "sine", scale |-> "minor", tempo |-> 80,
      baseFreq |-> 400, instrument |-> "violin"],
     [waveform |-> "sine", scale |-> "serene", tempo |-> 85,
      baseFreq |-> 440, instrument |-> "piano"],
     [waveform |-> "triangle", scale |-> "gentle", tempo |-> 75,
      baseFreq |-> 380, instrument |-> "marimba"],
     [waveform |-> "sine", scale |-> "cozy", tempo |-> 90,
      baseFreq |-> 410, instrument |-> "sine"],
     [waveform |-> "triangle", scale |-> "peaceful", tempo |-> 70,
      baseFreq |-> 360, instrument |-> "piano"],
     [waveform |-> "sine", scale |-> "tranquil", tempo |-> 82,
      baseFreq |-> 430, instrument |-> "castanets"]}

\* regex.test(text) for /(w1|w2|...)/i: some word occurs in the text, letters
\* compared without regard to case.
Matches(text, words) ==
    \E word \in words :
        \E offset \in 0..(Len(text) - Len(word)) :
            \A k \in 1..Len(word) :
                toUpperCase(text[offset + k]) = toUpperCase(word[k])

\* '!', love, 사랑, 행복, happy, excited
EnergeticWords ==
    {<<33>>, <<108, 111, 118, 101>>, <<49324, 46993>>, <<54665, 48373>>,
     <<104, 97, 112, 112, 121>>, <<101, 120, 99, 105, 116, 101, 100>>}

\* 밤, night, 별, star, dream, 꿈
DreamyWords ==
    {<<48164>>, <<110, 105, 103, 104, 116>>, <<48324>>, <<115, 116, 97, 114>>,
     <<100, 114, 101, 97, 109>>, <<45000>>}

\* 슬프, sad, lonely, 외롭
MelancholicWords ==
    {<<49836, 54532>>, <<115, 97, 100>>, <<108, 111, 110, 101, 108, 121>>,
     <<50808, 47213>>}

\* len > 80: the longest text that is not 'Epic'.
EPIC_LENGTH == 80

buildAutoTheme(text) ==
    LET base == DEFAULT_THEME
        len  == Len(text)
        pick ==
            IF Matches(text, EnergeticWords)
              THEN [waveform |-> "sawtooth", tempoMultiplier |-> 140,
                    baseFrequency |-> 480, scale |-> scalePresets("major")]
            ELSE IF Matches(text, DreamyWords)
              THEN [waveform |-> "triangle", tempoMultiplier |-> 90,
                    baseFrequency |-> 420, scale |-> scalePresets("dreamy")]
            ELSE IF Matches(text, MelancholicWords)
              THEN [waveform |-> "sine", tempoMultiplier |-> 80,
                    baseFrequency |-> 400, scale |-> scalePresets("minor")]
            ELSE IF len > EPIC_LENGTH
              THEN [waveform |-> "square", tempoMultiplier |-> 130,
                    baseFrequency |-> 460, scale |-> scalePresets("major")]
            ELSE [waveform |-> "sine", tempoMultiplier |-> 100,
                  baseFrequency |-> 440, scale |-> scalePresets("major")]
    IN  [tempoMultiplier |-> pick.tempoMultiplier,
         baseFrequency |-> pick.baseFrequency, scale |-> pick.scale,
         waveform |-> pick.waveform, instrument |-> base.instrument]

\* typeof x === 'number': NaN is a number, the empty value '' is not.
IsNumber(x) == x # EmptyValue

\* x > bound for a number x: false for NaN.
GreaterThan(x, bound) == x # NaN /\ x.num > bound

\* selectedBaseFreq > 50
MIN_BASE_FREQ == 50

\* selectedTempo > 0.2, in hundredths
MIN_TEMPO == 20

\* A theme builder that takes every number selected as the base frequency.
buildManualThemeAnyFrequency(sel) ==
    [tempoMultiplier |->
        IF IsNumber(sel.selectedTempo) /\ GreaterThan(sel.selectedTempo, MIN_TEMPO)
          THEN sel.selectedTempo.num ELSE DEFAULT_THEME.tempoMultiplier,
     baseFrequency |->
        IF IsNumber(sel.selectedBaseFreq) /\ sel.selectedBaseFreq # NaN
          THEN sel.selectedBaseFreq.num ELSE DEFAULT_THEME.baseFrequency,
     scale |->
        IF sel.selectedScale # "" /\ sel.selectedScale \in ScalePresetNames
          THEN scalePresets(sel.selectedScale) ELSE DEFAULT_THEME.scale,
     waveform |-> DEFAULT_THEME.waveform,
     instrument |-> sel.selectedInstrument]

\* buildManualTheme(), a function of the selections it reads.
buildManualTheme(sel) ==
    LET base == DEFAULT_THEME
        baseFrequency ==
            IF IsNumber(sel.selectedBaseFreq)
                 /\ GreaterThan(sel.selectedBaseFreq, MIN_BASE_FREQ)
              THEN sel.selectedBaseFreq.num
              ELSE base.baseFrequency
        tempoMultiplier ==
            IF IsNumber(sel.selectedTempo)
                 /\ GreaterThan(sel.selectedTempo, MIN_TEMPO)
              THEN sel.selectedTempo.num
              ELSE base.tempoMultiplier
        scale ==
            IF sel.selectedScale # "" /\ sel.selectedScale \in ScalePresetNames
              THEN scalePresets(sel.selectedScale)
              ELSE base.scale
    IN  [tempoMultiplier |-> tempoMultiplier, baseFrequency |-> baseFrequency,
         scale |-> scale, waveform |-> base.waveform,
         instrument |-> sel.selectedInstrument]

\* 'HELLO', the preview text of an empty input.
HELLO == <<72, 69, 76, 76, 79>>

\* A text of 81 letters 'E'.
LongText == [i \in 1..(EPIC_LENGTH + 1) |-> 69]

\* Texts typed into the App: none, "A", "!", "SAD", 밤 and a long text.
AppTexts == {<<>>, <<65>>, <<33>>, <<83, 65, 68>>, <<48164>>, LongText}

\* Values of a numeric selection: none, NaN, and numbers below, at and above
\* the two thresholds.
TempoValues ==
    {EmptyValue, NaN, Num(-100), Num(0), Num(20), Num(25), Num(70), Num(200)}

BaseFreqValues ==
    {EmptyValue, NaN, Num(-440), Num(0), Num(50), Num(55), Num(380)}

\* Scale names: none, two presets and a name that is no preset.
ScaleNames == {"", "minor", "tranquil", "chromatic"}

\* The states of the App's text and selections the preview is run in.
AppInputs ==
    {[NoSelection EXCEPT !.inputText = text] : text \in AppTexts}
    \cup
    {[inputText |-> text, isAutoTheme |-> FALSE, selectedBaseFreq |-> freq,
      selectedTempo |-> tempo, selectedScale |-> scale,
      selectedInstrument |-> inst] :
        text \in {<<>>, <<65>>}, freq \in BaseFreqValues,
        tempo \in TempoValues, scale \in ScaleNames,
        inst \in {"piano", "castanets"}}
    \cup
    {[inputText |-> <<65>>, isAutoTheme |-> FALSE,
      selectedBaseFreq |-> Num(preset.baseFreq),
      selectedTempo |-> Num(preset.tempo), selectedScale |-> preset.scale,
      selectedInstrument |-> preset.instrument] : preset \in stylePresets}

InitApp == InitEngine /\ app \in AppInputs

\* The preview effect: the theme is built from the text (automatic theme) or
\* from the selections and passed to generateTimeline with the preview text.
\* The model follows the App up to its first preview.
Preview ==
    /\ ~firstCall.made
    /\ LET previewText    == IF app.inputText # <<>> THEN app.inputText ELSE HELLO
           effectiveTheme == IF app.isAutoTheme THEN buildAutoTheme(previewText)
                             ELSE buildManualTheme(app)
       IN  GenerateTimeline(previewText, effectiveTheme)

SpecApp == InitApp /\ [][Preview]_vars

-----------------------------------------------------------------------------
(* Properties of generateTimeline, checked under SpecTimeline.             *)

\* The indices of the note events of a timeline.
NoteIndices(evs) == {i \in 1..Len(evs) : evs[i].type = "note"}

\* An event without its start time, frequency and source character.
ShapeOf(e) == [type |-> e.type, duration |-> e.duration, symbol |-> e.symbol]

Shapes(evs) == [i \in 1..Len(evs) |-> ShapeOf(evs[i])]

Silence(duration, symbol) ==
    [type |-> "silence", duration |-> duration, symbol |-> symbol]

\* The list is packed: it starts at 0 and every event starts where the
\* previous one ends.
Packed(evs) ==
    /\ evs # <<>>
    /\ evs[1].startTime = 0
    /\ \A i \in 1..(Len(evs) - 1) :
          evs[i + 1].startTime = evs[i].startTime + evs[i].duration

\* C1: the list generateTimeline returns is fully packed: the first event
\* starts at 0 and each next event, the final padding silence included,
\* starts exactly where the previous one ends (no gap, no overlap).
C1_FullyPacked == lastCall.made => Packed(lastCall.result)

\* C1 witness: a timeline of several units and a word space was generated.
C1_Witness ==
    /\ lastCall.made
    /\ lastCall.text = <<65, 32, 66>>
    /\ Len(lastCall.result) > 5

\* The notes of a code of n symbols with n-1 one-unit silences between them.
RECURSIVE ExpectedCode(_, _)
ExpectedCode(code, u) ==
    IF code = <<>> THEN <<>>
    ELSE LET note == [type |-> "note",
                      duration |-> IF Head(code) = DOT THEN u ELSE DASH_UNITS * u,
                      symbol |-> Head(code)]
         IN  IF Len(code) = 1 THEN <<note>>
             ELSE <<note, Silence(u, NULL)>> \o ExpectedCode(Tail(code), u)

\* The groups of a unit sequence: a word space is one silence of 7 units,
\* any other unit is its notes followed by one silence of 3 units.
RECURSIVE ExpectedUnits(_, _)
ExpectedUnits(units, u) ==
    IF units = <<>> THEN <<>>
    ELSE (IF Head(units) = 32 THEN <<Silence(7 * u, WORD_SPACE)>>
          ELSE ExpectedCode(MORSE_MAP(Head(units)), u) \o <<Silence(3 * u, SPACE)>>)
         \o ExpectedUnits(Tail(units), u)

\* The symbols of the note events, in order.
NoteSymbols(evs) ==
    LET RECURSIVE Collect(_)
        Collect(i) ==
            IF i > Len(evs) THEN <<>>
            ELSE (IF evs[i].type = "note" THEN <<evs[i].symbol>> ELSE <<>>)
                 \o Collect(i + 1)
    IN  Collect(1)

\* C2: every non-space unit whose code has n symbols yields n notes (dot = 1
\* unit, dash = DASH_UNITS units) with n-1 one-unit silences between them and
\* one 3-unit inter-character silence after them; the list ends with exactly
\* one padding silence; "SOS" yields 9 notes: 3 dots, 3 dashes, 3 dots.
C2_UnitGroups ==
    lastCall.made =>
        LET u == unitTimeOf(lastCall.theme) IN
        /\ Shapes(lastCall.result) =
              ExpectedUnits(textToMorse(lastCall.text).decomposed, u)
                \o <<Silence(PADDING, NULL)>>
        /\ lastCall.text = SOS =>
              NoteSymbols(lastCall.result) =
                 <<DOT, DOT, DOT, DASH, DASH, DASH, DOT, DOT, DOT>>

\* C2 witness: "SOS" was generated and has 9 notes.
C2_Witness ==
    /\ lastCall.made
    /\ lastCall.text = SOS
    /\ Cardinality(NoteIndices(lastCall.result)) = 9

\* text is two mapped characters separated by one space.
TwoWords(text) ==
    /\ Len(text) = 3
    /\ text[2] = 32
    /\ text[1] \notin Unmapped \cup {32}
    /\ text[3] \notin Unmapped \cup {32}

\* The events between the last note before the word space and the first
\* note after it (the list holds exactly one word space).
AroundWordSpace(evs) ==
    LET w     == CHOOSE i \in 1..Len(evs) : evs[i].symbol = WORD_SPACE
        notes == NoteIndices(evs)
        k     == CHOOSE i \in notes : i < w /\ \A j \in notes : j < w => j <= i
        m     == CHOOSE i \in notes : i > w /\ \A j \in notes : j > w => i <= j
    IN  Shapes(SubSeq(evs, k + 1, m - 1))

\* C3 as stated: between the last note of the first character and the first
\* note of the second there is only the WORD-SPACE silence of 7 units.
C3_OnlyWordSpace ==
    (lastCall.made /\ TwoWords(lastCall.text)) =>
        AroundWordSpace(lastCall.result) =
            <<Silence(7 * unitTimeOf(lastCall.theme), WORD_SPACE)>>

\* C3 amended: between the two characters' notes there are exactly two
\* silences: the 3-unit inter-character silence that closes the first
\* character, then the WORD-SPACE silence of 7 units; no inter-character
\* silence stands between the word space and the second character.
C3_GapThenWordSpace ==
    (lastCall.made /\ TwoWords(lastCall.text)) =>
        LET u == unitTimeOf(lastCall.theme) IN
        AroundWordSpace(lastCall.result) =
            <<Silence(3 * u, SPACE), Silence(7 * u, WORD_SPACE)>>

\* C3 witness: "A B" was generated.
C3_Witness ==
    /\ lastCall.made
    /\ lastCall.text = <<65, 32, 66>>
    /\ TwoWords(lastCall.text)

\* The latest call repeats the first call's text at twice its tempo.
DoubledCall ==
    /\ firstCall.made
    /\ lastCall.text = firstCall.text
    /\ TempoDoubled(firstCall.theme, lastCall.theme)

\* C4 as stated: at twice the tempo the list has the same length and every
\* event's duration and start time, the last one included, is halved.
C4_AllHalved ==
    DoubledCall =>
        /\ Len(lastCall.result) = Len(firstCall.result)
        /\ \A i \in 1..Len(lastCall.result) :
              /\ 2 * lastCall.result[i].duration = firstCall.result[i].duration
              /\ 2 * lastCall.result[i].startTime = firstCall.result[i].startTime

\* C4 amended: at twice the tempo the list has the same length, every start
\* time is halved and every duration but the last is halved; the final
\* padding silence keeps its fixed duration of 2.0 s.
C4_HalvedButPadding ==
    DoubledCall =>
        LET n == Len(lastCall.result) IN
        /\ n = Len(firstCall.result)
        /\ \A i \in 1..n :
              2 * lastCall.result[i].startTime = firstCall.result[i].startTime
        /\ \A i \in 1..(n - 1) :
              2 * lastCall.result[i].duration = firstCall.result[i].duration
        /\ lastCall.result[n].duration = PADDING
        /\ firstCall.result[n].duration = PADDING

\* C4 witness: a text with notes was generated at a tempo and at its double.
C4_Witness ==
    /\ DoubledCall
    /\ NoteIndices(lastCall.result) # {}

\* The latest call's text is the first call's with one unmapped character
\* inserted, under the same theme.
InsertedCall ==
    /\ firstCall.made
    /\ lastCall.theme = firstCall.theme
    /\ Inserted(firstCall.text, lastCall.text)

\* C5: inserting a character that has no Morse mapping leaves the returned
\* list unchanged in every field, frequencies included.
C5_UnmappedIgnored == InsertedCall => lastCall.result = firstCall.result

\* C7: every dash lasts the same whole multiple k, 3 <= k <= 4, of every dot
\* of its timeline, with one k for all characters and themes; the dot is
\* DOT_TIME / tempoMultiplier.
C7_DashRatio ==
    \E k \in 3..4 :
        \A call \in {firstCall, lastCall} :
            \A i \in NoteIndices(call.result) :
                /\ call.result[i].symbol = DOT =>
                      call.result[i].duration * call.theme.tempoMultiplier
                         = DOT_TIME * 100
                /\ call.result[i].symbol = DASH =>
                      \A j \in NoteIndices(call.result) :
                          call.result[j].symbol = DOT =>
                              call.result[i].duration = k * call.result[j].duration

\* C7 witness: dots and dashes were generated under two different tempi.
C7_Witness ==
    /\ DoubledCall
    /\ \A call \in {firstCall, lastCall} :
          /\ \E i \in NoteIndices(call.result) : call.result[i].symbol = DOT
          /\ \E i \in NoteIndices(call.result) : call.result[i].symbol = DASH

-----------------------------------------------------------------------------
(* Properties of the engine, checked under Spec.                           *)

\* The index of the unit a note belongs to: the number of inter-character
\* silences before it.
UnitIndex(evs, i) == Cardinality({j \in 1..(i - 1) : evs[j].symbol = SPACE})

C8_SinglePlayback ==
    /\ Cardinality(timers) <= 1
    /\ \A t1, t2 \in tones : t1.ctx = t2.ctx => t1.play = t2.play

\* C9: once stop() has stopped a playback, no timer of that playback is
\* pending, and no onComplete is invoked for a playback stopped before.
C9_StopCancels ==
    /\ \A tm \in timers : tm.play \notin stopped
    /\ \A i \in 1..Len(completed) : ~completed[i].afterStop

\* C10: a playback in progress runs on an open context that the engine still
\* holds: its drone oscillators and its notes are on a running context, not
\* on one that stop() suspended and closed.
C10_FreshContext ==
    isPlaying =>
        /\ audioCtx # 0
        /\ contexts[audioCtx] = "running"
        /\ \A i \in 1..Len(padOscillators) :
              contexts[padOscillators[i].ctx] = "running"
        /\ \A t \in tones : t.play = plays => contexts[t.ctx] = "running"

\* C11: after stop() returns and until the next play(), the engine is not
\* playing and every scheduled tone is on a context that is not running (its
\* suspend() and close() were requested, or it is closed), however far the
\* stopped playback had progressed.
C11_StoppedSilent ==
    caller = "stop" =>
        /\ ~isPlaying
        /\ \A t \in tones : contexts[t.ctx] # "running"

\* C11 witness: stop() was called during the drone fade of a playback whose
\* notes are still scheduled.
C11_Witness ==
    /\ caller = "stop"
    /\ tones # {}
    /\ \E tm \in timers : tm.stage = "inner"

\* What a scheduled tone plays: its offsets from the play's origin and its
\* frequency.
NoteOfTone(t) ==
    [startTime |-> t.noteStart, duration |-> t.noteEnd - t.noteStart,
     frequency |-> t.frequency]

\* The note events of a timeline, in the same form.
NotesOfTimeline(evs) ==
    {[startTime |-> evs[i].startTime, duration |-> evs[i].duration,
      frequency |-> evs[i].frequency] : i \in NoteIndices(evs)}

C15_GenerateFrame ==
    [][(lastCall' # lastCall \/ firstCall' # firstCall \/ events' # events) =>
          UNCHANGED <<audioCtx, masterGain, melodyGain, padGain, padOscillators,
                      isPlaying, timerID, contexts>>]_vars

\* C15 witness: generateTimeline was called while a playback was in progress
\* and the playback is still in progress, with its drone and its timer.
C15_Witness ==
    /\ lastCall.busy
    /\ isPlaying
    /\ timerID # 0
    /\ padOscillators # <<>>
    /\ events = lastCall.result

\* C16: the note tones and the drone oscillators of a play() are scheduled
\* in the play() step itself: a step that adds a tone or starts oscillators
\* is a play() step and what it adds belongs to that play; timer callbacks,
\* stop() and the close() resolution add none.
C16_ScheduledInPlay ==
    [][/\ tones' \ tones # {} =>
             /\ plays' = plays + 1
             /\ \A t \in tones' \ tones : t.play = plays'
       /\ (padOscillators' # padOscillators /\ padOscillators' # <<>>) =>
             plays' = plays + 1]_vars

\* C16 witness: both timers of a playback with notes have fired, the
\* completion was notified, and the tones scheduled at play() are all there
\* is.
C16_Witness ==
    /\ completed # <<>>
    /\ tones # {}
    /\ \A t \in tones : t.play = completed[1].play

-----------------------------------------------------------------------------
(* Properties of the playback lifecycle, checked under SpecLifecycle.      *)

\* C12: stop() is idempotent and safe when idle: before any play() it leaves
\* the engine idle with no context, no timer and no drone oscillator; after
\* another stop() it changes no field of the engine; and it never requests
\* suspend()/close() on a context whose close() was requested before.
C12_StopIdempotent ==
    [][Stop =>
         /\ plays = 0 =>
               /\ audioCtx' = 0
               /\ ~isPlaying'
               /\ timerID' = 0
               /\ timers' = {}
               /\ padOscillators' = <<>>
         /\ caller = "stop" =>
               UNCHANGED <<audioCtx, masterGain, melodyGain, padGain,
                           padOscillators, isPlaying, timerID, contexts, timers>>
         /\ rejections' = rejections]_vars

\* The entries of the completion log that belong to play p.
CompletionsOf(p) == {i \in 1..Len(completed) : completed[i].play = p}

\* C13: if play() was called and neither stop() nor another play() was
\* called afterwards, its onComplete is invoked exactly once, after the
\* cleanup timer (total duration and lead) and the fade timer have fired: as
\* long as it has not been invoked, a timer of that play is still pending,
\* and it is never invoked twice.
C13_CompletesOnce ==
    (caller = "play" /\ plays \notin failed) =>
        /\ Cardinality(CompletionsOf(plays)) <= 1
        /\ CompletionsOf(plays) = {} => \E tm \in timers : tm.play = plays
        /\ \A tm \in timers :
              (tm.play = plays /\ tm.stage = "outer") =>
                  tm.delay >= totalDuration(events)

C19_FailureSurfaced ==
    (caller = "play" /\ plays \in failed) => (~isPlaying /\ ~appIsPlaying)

\* C20: a play() of a stored timeline without notes (empty or white-space
\* text, or no timeline generated) is a no-op: it schedules no tone, starts
\* no drone oscillator and sets no timer.
C20_EmptyPlayNoOp ==
    [][(plays' = plays + 1 /\ plays' \notin failed'
          /\ NoteIndices(events) = {}) =>
          /\ tones' = tones
          /\ padOscillators' = padOscillators
          /\ timers' = timers
          /\ timerID' = timerID]_vars

-----------------------------------------------------------------------------
(* Properties of generateTimeline at its edge inputs, checked under        *)
(* SpecTimeline.                                                           *)

\* A text of one or more spaces and nothing else.
IsBlank(text) == text # <<>> /\ \A i \in 1..Len(text) : text[i] = 32

\* The list that holds the padding silence only.
PaddingOnly ==
    <<[type |-> "silence", startTime |-> 0, duration |-> PADDING,
       symbol |-> NULL]>>

\* C21: for a text of one or more spaces and nothing else, generateTimeline
\* returns exactly one event, the padding silence, starting at 0.
C21_BlankPaddingOnly ==
    (lastCall.made /\ IsBlank(lastCall.text)) => lastCall.result = PaddingOnly

\* C23: generateTimeline called with a malformed theme substitutes the
\* reference tempo, frequency or scale: every event it returns has a finite
\* duration > 0 and every note has a defined, finite, positive frequency.
C23_MalformedSubstituted ==
    lastCall.made =>
        \A i \in 1..Len(lastCall.result) :
            LET e == lastCall.result[i] IN
            /\ e.duration > 0
            /\ e.type = "note" => (e.frequency # NaN /\ e.frequency.base > 0)

\* A text without a unit: empty, or made only of characters that have no
\* Morse mapping.
IsUnmappedOnly(text) ==
    \A i \in 1..Len(text) :
        /\ text[i] # 32
        /\ ~IsHangul(text[i])
        /\ ~HasMorse(toUpperCase(text[i]))

\* C22: for the empty text and for a text made only of characters without a
\* Morse mapping, generateTimeline returns exactly one event, a silence that
\* starts at 0 and lasts the fixed padding (2.0 s) under every theme, so the
\* total duration is the padding constant.
C22_NoUnitPaddingOnly ==
    (lastCall.made /\ IsUnmappedOnly(lastCall.text)) =>
        /\ lastCall.result = PaddingOnly
        /\ totalDuration(lastCall.result) = PADDING

\* C22 witness: a text of two unmapped characters was generated at a tempo
\* other than the reference tempo.
C22_Witness ==
    /\ lastCall.made
    /\ lastCall.text = <<35, 35>>
    /\ lastCall.theme.tempoMultiplier # DEFAULT_THEME.tempoMultiplier
    /\ Len(lastCall.result) = 1

-----------------------------------------------------------------------------
(* Properties of the App's themes, checked under SpecApp.                  *)

-----------------------------------------------------------------------------
(* Properties of the Hangul decomposition, checked under SpecHangul.       *)

\* The 14 basic consonants.
PrimitiveConsonants ==
    {12593, 12596, 12599, 12601, 12609, 12610, 12613, 12615, 12616, 12618,
     12619, 12620, 12621, 12622}

\* The vowels that are no diphthong: the 10 basic vowels, and the two
\* monophthongs written with two strokes.
PrimitiveVowels ==
    {12623, 12625, 12627, 12629, 12631, 12635, 12636, 12640, 12641, 12643,
     12624, 12628}

\* The index of the initial, medial and final of a syllable (from 0).
InitialIndex(c) == (c - HANGUL_FIRST) \div (21 * 28)

MedialIndex(c) == ((c - HANGUL_FIRST) % (21 * 28)) \div 28

FinalIndex(c) == (c - HANGUL_FIRST) % 28

\* A syllable of a primitive initial, a primitive medial and a primitive
\* final.
IsPrimitiveSyllable(c) ==
    /\ initials[InitialIndex(c) + 1] \in PrimitiveConsonants
    /\ medials[MedialIndex(c) + 1] \in PrimitiveVowels
    /\ FinalIndex(c) # 0
    /\ finals[FinalIndex(c) + 1] \in PrimitiveConsonants

\* The source characters of the notes of a timeline, without repetition of
\* the notes of one unit: the unit of every inter-character silence.
GroupChars(evs) ==
    LET RECURSIVE Collect(_)
        Collect(i) ==
            IF i > Len(evs) THEN <<>>
            ELSE (IF evs[i].symbol = SPACE /\ i > 1 /\ evs[i - 1].type = "note"
                    THEN <<evs[i - 1].char>> ELSE <<>>)
                 \o Collect(i + 1)
    IN  Collect(1)

\* C25: a syllable whose initial, medial and final are all primitive jamo
\* yields exactly 3 decomposed units in the order initial, medial, final, and
\* its timeline has exactly 3 note/silence groups, the third one carrying
\* the final consonant.
C25_ThreeJamoGroups ==
    (lastCall.made /\ IsPrimitiveSyllable(lastCall.text[1])) =>
        LET c     == lastCall.text[1]
            units == <<initials[InitialIndex(c) + 1], medials[MedialIndex(c) + 1],
                       finals[FinalIndex(c) + 1]>>
        IN  /\ decomposeHangul(c) = units
            /\ textToMorse(lastCall.text).decomposed = units
            /\ Shapes(lastCall.result) =
                  ExpectedUnits(units, unitTimeOf(lastCall.theme))
                    \o <<Silence(PADDING, NULL)>>
            /\ GroupChars(lastCall.result) = units
            /\ \A i \in NoteIndices(lastCall.result) :
                  lastCall.result[i].char \in {units[1], units[2], units[3]}

\* C25 witness: the timeline of U+D55C (initial U+314E, medial U+314F, final
\* U+3134) was generated.
C25_Witness ==
    /\ lastCall.made
    /\ lastCall.text = <<54620>>
    /\ GroupChars(lastCall.result) = <<12622, 12623, 12596>>

\* C26: for every syllable U+AC00..U+D7A3 the indices initial = offset div
\* 588, medial = (offset mod 588) div 28 and final = offset mod 28 lie inside
\* their tables (0..18, 0..20, 0..27), every jamo decomposeHangul outputs has
\* a direct entry in the Morse map, so no component is dropped, and the
\* syllable yields between 2 and 6 units.
C26_EveryJamoMapped ==
    lastCall.made =>
        LET c     == lastCall.text[1]
            jamos == decomposeHangul(c)
            units == textToMorse(lastCall.text).decomposed
        IN  /\ InitialIndex(c) \in 0..18 /\ Len(initials) = 19
            /\ MedialIndex(c) \in 0..20 /\ Len(medials) = 21
            /\ FinalIndex(c) \in 0..27 /\ Len(finals) = 28
            /\ \A k \in 1..Len(jamos) : HasMorse(jamos[k])
            /\ units = jamos
            /\ Len(units) \in 2..6
            /\ GroupChars(lastCall.result) = jamos

\* C26 witness: the timeline of U+AF4A (doubled initial, compound medial,
\* doubled final) was generated and has 6 units; so was that of the last
\* syllable of the block in another behaviour.
C26_Witness ==
    /\ lastCall.made
    /\ lastCall.text = <<44874>>
    /\ Len(textToMorse(lastCall.text).decomposed) = 6

-----------------------------------------------------------------------------
(* Properties of the case normalisation, checked under SpecCase.           *)

-----------------------------------------------------------------------------
(* Properties of the pitch and of the event records, checked under         *)
(* SpecTimeline.                                                           *)

\* The octave shifts and the fine tunings the pitch may use.
OctaveShifts == {0, 12, -12, 24}

FineTunes == {0} \cup {f \in -3..3 : f >= 1 \/ f <= -1}

\* scale[i] + octaveShift + fineTune over the valid indices of the scale.
AllowedSemitones(scale) ==
    {scale[i] + o + f : i \in 1..Len(scale), o \in OctaveShifts, f \in FineTunes}

\* scale[i] + octaveShift: the offsets without fine tuning.
UntunedSemitones(scale) ==
    {scale[i] + o : i \in 1..Len(scale), o \in OctaveShifts}

\* C28: the semitone offset of every note is scale[i] + octaveShift +
\* fineTune with i a valid index of the scale, octaveShift in {0, +12, -12,
\* +24} and fineTune 0 or of magnitude 1 to 3, on the theme's base
\* frequency.
C28_SemitoneBounds ==
    lastCall.made =>
        \A i \in NoteIndices(lastCall.result) :
            LET f == lastCall.result[i].frequency IN
            /\ f # NaN
            /\ f.base = lastCall.theme.baseFrequency
            /\ f.semitones \in AllowedSemitones(lastCall.theme.scale)

\* C28 witness: a timeline has a note that is shifted by an octave and a
\* note that is fine tuned.
C28_Witness ==
    /\ lastCall.made
    /\ \E i \in NoteIndices(lastCall.result) :
          lastCall.result[i].frequency.semitones
            \notin {lastCall.theme.scale[k] : k \in 1..Len(lastCall.theme.scale)}
    /\ \E i \in NoteIndices(lastCall.result) :
          lastCall.result[i].frequency.semitones
            \notin UntunedSemitones(lastCall.theme.scale)

-----------------------------------------------------------------------------
(* Properties of the drone, checked under SpecDrone.                       *)

\* The scale indices idx, idx + 1 and idx + 2 modulo the length n.
ChordIndices(idx, n) == <<idx, (idx + 1) % n, (idx + 2) % n>>

\* C29: for every non-empty scale (lengths 1 and 2 included) and every
\* start index, play() leaves exactly 3 tracked drone oscillators whose
\* scale indices are idx, idx+1 and idx+2 modulo the scale length; at every
\* step the engine tracks 0 or 3 drone oscillators, and 0 whenever it is not
\* playing, so play/stop cycles never accumulate oscillators.
C29_DroneBounded ==
    [][/\ Len(padOscillators') \in {0, 3}
       /\ ~isPlaying' => padOscillators' = <<>>
       /\ \A theme \in DroneThemes :
             Play(theme) =>
                 /\ Len(padOscillators') = 3
                 /\ \E idx \in 0..(Len(theme.scale) - 1) :
                       [k \in 1..3 |-> padOscillators'[k].idx]
                         = ChordIndices(idx, Len(theme.scale))
                 /\ \A k \in 1..3 : padOscillators'[k].ctx = audioCtx']_vars

\* C29 witness: after a play and a stop, a second play on a scale of two
\* steps tracks the three oscillators of indices 1, 0, 1.
C29_Witness ==
    /\ plays = 2
    /\ stopped # {}
    /\ isPlaying
    /\ Len(padOscillators) = 3
    /\ [k \in 1..3 |-> padOscillators[k].idx] = <<1, 0, 1>>

-----------------------------------------------------------------------------
(* Properties of the event records, checked under SpecTimeline.            *)

\* The decomposed units of a text that are no word space.
SoundingUnits(text) ==
    SelectSeq(textToMorse(text).decomposed, LAMBDA c : c # 32)

\* C30: in every timeline generated with a valid theme, every event has
\* startTime >= 0 and duration > 0; every note carries a frequency and the
\* decomposed unit that produced it, and every silence carries neither.
C30_EventFields ==
    lastCall.made =>
        \A i \in 1..Len(lastCall.result) :
            LET e == lastCall.result[i] IN
            /\ e.startTime >= 0
            /\ e.duration > 0
            /\ e.type \in {"note", "silence"}
            /\ e.type = "note" =>
                  /\ DOMAIN e = {"type", "startTime", "duration", "symbol",
                                 "frequency", "char"}
                  /\ e.frequency # NaN
                  /\ e.frequency.base > 0
                  /\ e.char = SoundingUnits(lastCall.text)
                                [UnitIndex(lastCall.result, i) + 1]
            /\ e.type = "silence" =>
                  DOMAIN e = {"type", "startTime", "duration", "symbol"}

\* C30 witness: a timeline with notes of two units, a word space and the
\* silences between and after them was generated.
C30_Witness ==
    /\ lastCall.made
    /\ lastCall.text = <<83, 32, 54620>>
    /\ \E i \in 1..Len(lastCall.result) : lastCall.result[i].symbol = WORD_SPACE
    /\ \E i \in NoteIndices(lastCall.result) : lastCall.result[i].char = 12596

-----------------------------------------------------------------------------
(* Properties of the note envelopes, checked under Spec.                   *)

\* The automation points lie within the note and are in time order.
InTimeOrder(points, noteStart, noteEnd) ==
    /\ \A k \in 1..Len(points) :
          noteStart <= points[k].at /\ points[k].at <= noteEnd
    /\ \A k \in 1..(Len(points) - 1) : points[k].at <= points[k + 1].at

\* The envelope play() gives, with the instrument of theme, to note i of
\* the stored timeline.
EnvelopeOfNote(theme, i) ==
    envelope(instrumentOf(theme), events[i].startTime,
             events[i].startTime + events[i].duration, events[i].duration)

\* C31: for every instrument and every note of a timeline with a tempo in
\* 0.5..2.0, the envelope points that play() schedules are in time order:
\* noteStart <= end of attack (and of decay) <= start of release <= noteEnd,
\* and no gain value is scheduled before the note's start or after its end.
C31_EnvelopeInTimeOrder ==
    [][\A theme \in EngineThemes :
          Play(theme) =>
              \A i \in NoteIndices(events) :
                  InTimeOrder(EnvelopeOfNote(theme, i), events[i].startTime,
                              events[i].startTime + events[i].duration)]_vars

-----------------------------------------------------------------------------
(* The App around the engine while it plays (src/App.tsx): the mount, the  *)
(* text input, the play/stop button, the style preset and instrument       *)
(* buttons, the timer that captures the context for the renderer, the two  *)
(* timers of play(), the close() resolution and the audio clock.           *)

\* setTimeout(..., 50): the delay of the capture of the context. The audio
\* clock is observed in steps of this length.
CAPTURE_DELAY == 50000

\* const startTime = this.audioCtx.currentTime + 0.1
SCHEDULE_LEAD == 100000

\* currentTime = audioCtxRef.current.currentTime - startTimeRef.current - 0.1
RENDER_LEAD == 100000

\* audioCtx.currentTime of the context the engine refers to.
currentTime == ctxTime * CAPTURE_DELAY

\* useRef initial values: audioCtxRef null, startTimeRef 0.
NoRefs == [audioCtxRef |-> 0, startTimeRef |-> 0]

\* The App's state and refs after its construction.
MountedApp ==
    [f \in DOMAIN NoSelection \cup DOMAIN NoRefs |->
        IF f \in DOMAIN NoSelection THEN NoSelection[f] ELSE NoRefs[f]]

InitPlayback == InitEngine /\ app = MountedApp

\* The style presets and instruments whose buttons are pressed.
PressedPresets == {preset \in stylePresets : preset.scale = "minor"}

PressedInstruments == {"marimba"}

\* The preview effect with the App's state sel: the theme is built from the
\* preview text or from the selections, passed to generateTimeline, and the
\* returned list is stored as the events the renderer draws.
previewEffect(sel) ==
    LET previewText    == IF sel.inputText # <<>> THEN sel.inputText ELSE HELLO
        effectiveTheme == IF sel.isAutoTheme THEN buildAutoTheme(previewText)
                          ELSE buildManualTheme(sel)
    IN  /\ events' = timelineOf(previewText, effectiveTheme)
        /\ lastCall' = [made |-> TRUE, again |-> lastCall.made,
                        busy |-> isPlaying, text |-> previewText,
                        theme |-> effectiveTheme, result |-> events']
        /\ firstCall' = IF firstCall.made THEN firstCall ELSE lastCall'

\* A change of the App's state to sel; the preview effect runs when one of
\* its dependencies has changed.
setState(sel) ==
    /\ app' = sel
    /\ IF sel # app THEN previewEffect(sel)
       ELSE UNCHANGED <<events, firstCall, lastCall>>
    /\ UNCHANGED <<audioCtx, masterGain, melodyGain, padGain, padOscillators,
                   isPlaying, timerID, contexts, timers, tones, completed,
                   plays, stopped, ctxTime, rejections, failed, caller,
                   appIsPlaying>>

\* The first run of the preview effect, when the App is mounted.
Mount ==
    /\ ~lastCall.made
    /\ previewEffect(app)
    /\ UNCHANGED engineVars

\* syncInputToState / onCompositionEnd: setInputText(value); the textarea is
\* disabled while isPlaying.
SetInputText(text) ==
    /\ lastCall.made
    /\ ~appIsPlaying
    /\ setState([app EXCEPT !.inputText = text])

\* onClick of a style preset button.
SelectPreset(preset) ==
    /\ lastCall.made
    /\ setState([app EXCEPT !.selectedScale = preset.scale,
                            !.selectedTempo = Num(preset.tempo),
                            !.selectedBaseFreq = Num(preset.baseFreq),
                            !.selectedInstrument = preset.instrument,
                            !.isAutoTheme = FALSE])

\* onClick of an instrument button.
SelectInstrument(inst) ==
    /\ lastCall.made
    /\ setState([app EXCEPT !.selectedInstrument = inst])

\* A tone scheduled relative to the origin startTime, in context time:
\* noteStart = startTime + event.startTime, noteEnd = noteStart + duration.
atOrigin(startTime, tone) ==
    [tone EXCEPT !.noteStart = startTime + @, !.noteEnd = startTime + @,
                 !.envelopeEnd = [@ EXCEPT !.at = startTime + @]]

\* String.prototype.trim on a text: the space is the only white space of the
\* texts typed here.
trimText(text) ==
    LET inked == {i \in 1..Len(text) : text[i] # 32}
    IN  IF inked = {} THEN <<>>
        ELSE SubSeq(text, CHOOSE i \in inked : \A j \in inked : i <= j,
                    CHOOSE i \in inked : \A j \in inked : j <= i)

\* handlePlay() while isPlaying: stop() and setIsPlaying(false).
HandleStop ==
    /\ lastCall.made
    /\ appIsPlaying
    /\ Stop

\* handlePlay() while not playing: the theme is built from the trimmed text
\* or the selections, generateTimeline stores the list, play() schedules it
\* and the capture of the context is set to run 50 ms later.
HandlePlay ==
    /\ lastCall.made
    /\ ~appIsPlaying
    /\ trimText(app.inputText) # <<>>
    /\ plays < MaxPlays
    /\ LET text         == trimText(app.inputText)
           currentTheme == IF app.isAutoTheme THEN buildAutoTheme(text)
                           ELSE buildManualTheme(app)
           p            == plays + 1
           fresh        == audioCtx = 0
           ctx          == IF fresh THEN Len(contexts) + 1 ELSE audioCtx
       IN  \* generateTimeline(text, currentTheme); setEvents(timeline)
           /\ events' = timelineOf(text, currentTheme)
           /\ lastCall' = [made |-> TRUE, again |-> lastCall.made,
                           busy |-> isPlaying, text |-> text,
                           theme |-> currentTheme, result |-> events']
           /\ firstCall' = IF firstCall.made THEN firstCall ELSE lastCall'
           \* play(currentTheme, onComplete)
           /\ contexts' = IF fresh THEN Append(contexts, "running") ELSE contexts
           /\ audioCtx' = ctx
           /\ ctxTime' = IF fresh THEN 0 ELSE ctxTime
           /\ masterGain' = IF fresh THEN ctx ELSE masterGain
           /\ melodyGain' = IF fresh THEN ctx ELSE melodyGain
           /\ padGain' = IF fresh THEN ctx ELSE padGain
           /\ isPlaying' = TRUE
           /\ \E idx1 \in 0..(Len(droneScale(currentTheme)) - 1) :
                  padOscillators' = stopDrone(padOscillators)
                                      \o startDrone(ctx, currentTheme, idx1)
           /\ tones' = tones \cup
                  {atOrigin(ctxTime' * CAPTURE_DELAY + SCHEDULE_LEAD, tone) :
                      tone \in scheduleNotes(p, ctx, events',
                                             instrumentOf(currentTheme))}
           /\ timerID' = p
           \* the timer of play() and the timer of handlePlay()
           /\ timers' = timers \cup
                  {[play |-> p, stage |-> "outer",
                    delay |-> totalDuration(events') + CLEANUP_LEAD],
                   [play |-> p, stage |-> "capture", delay |-> CAPTURE_DELAY]}
           /\ plays' = p
    /\ caller' = "play"
    /\ appIsPlaying' = TRUE
    /\ UNCHANGED <<app, completed, stopped, rejections, failed>>

\* The callback of the timer set by handlePlay() p: audioCtxRef and
\* startTimeRef are set from the engine's context as it is now.
CaptureTimer(p) ==
    /\ timersOf(p, "capture") # {}
    /\ timers' = timers \ timersOf(p, "capture")
    /\ app' = [app EXCEPT !.audioCtxRef = audioCtx,
                          !.startTimeRef = IF audioCtx # 0 THEN currentTime
                                           ELSE 0]
    /\ UNCHANGED <<audioCtx, masterGain, melodyGain, padGain, padOscillators,
                   events, isPlaying, timerID, contexts, tones, completed,
                   plays, stopped, ctxTime, rejections, failed, caller,
                   appIsPlaying, firstCall, lastCall>>

\* The texts typed into the App.
PlaybackTexts == {<<84, 69>>, <<32, 84, 65>>}

\* A timer of play() p runs after the capture timer of the same handlePlay().
NextPlayback ==
    \/ Mount
    \/ \E text \in PlaybackTexts : SetInputText(text)
    \/ \E preset \in PressedPresets : SelectPreset(preset)
    \/ \E inst \in PressedInstruments : SelectInstrument(inst)
    \/ HandlePlay
    \/ HandleStop
    \/ \E p \in 1..MaxPlays : CaptureTimer(p)
    \/ \E p \in 1..MaxPlays : timersOf(p, "capture") = {} /\ CleanupTimer(p)
    \/ \E p \in 1..MaxPlays : CompleteTimer(p)
    \/ \E c \in 1..MaxPlays : CloseResolved(c)
    \/ Tick

SpecPlayback == InitPlayback /\ [][NextPlayback]_vars

-----------------------------------------------------------------------------
(* Properties of the App while it plays, checked under SpecPlayback.       *)

\* The tones scheduled by the latest play(), as [noteStart, noteEnd,
\* frequency] in context time.
ScheduledNotes ==
    {[noteStart |-> t.noteStart, noteEnd |-> t.noteEnd,
      frequency |-> t.frequency] : t \in {u \in tones : u.play = plays}}

\* The notes of the event list the renderer draws, placed at origin.
ShownNotes(origin) ==
    {[noteStart |-> origin + events[i].startTime,
      noteEnd |-> origin + events[i].startTime + events[i].duration,
      frequency |-> events[i].frequency] : i \in NoteIndices(events)}

\* The origins that place some drawn note on some scheduled tone.
Origins ==
    {t.noteStart - events[i].startTime :
        t \in ScheduledNotes, i \in NoteIndices(events)}

\* The App shows a playback whose context is running.
Playing ==
    /\ appIsPlaying
    /\ audioCtx # 0
    /\ contexts[audioCtx] = "running"

\* C32: while a playback is in progress, the event list, the theme and the
\* total duration the renderer uses are those of the timeline scheduled at
\* play(): no generateTimeline call was made since, the drawn notes are the
\* scheduled tones, and the pending cleanup timer was set for the drawn
\* list's duration.
C32_RendererShowsScheduled ==
    Playing =>
        /\ ~lastCall.busy
        /\ \/ ScheduledNotes = {} /\ NoteIndices(events) = {}
           \/ \E origin \in Origins : ShownNotes(origin) = ScheduledNotes
        /\ \A tm \in timersOf(plays, "outer") :
              tm.delay = totalDuration(events) + CLEANUP_LEAD

\* The capture timer of the latest handlePlay() has run on the context that
\* is playing the list the renderer draws.
Captured ==
    /\ Playing
    /\ timersOf(plays, "capture") = {}
    /\ app.audioCtxRef = audioCtx
    /\ ~lastCall.busy

\* C33: the elapsed time of the renderer, audio clock - startTimeRef - 0.1,
\* is the audio clock minus the scheduler's origin, so every drawn note is
\* active exactly over the interval of its tone: the tone of the note of
\* start s and duration d sounds over [startTimeRef + 0.1 + s,
\* startTimeRef + 0.1 + s + d] in context time.
C33_RendererOnSchedule ==
    Captured =>
        \A i \in NoteIndices(events) :
            \E t \in ScheduledNotes :
                /\ t.noteStart = app.startTimeRef + RENDER_LEAD
                                   + events[i].startTime
                /\ t.noteEnd = t.noteStart + events[i].duration

-----------------------------------------------------------------------------
(* Properties of the events over time, checked under SpecCase.             *)

\* The events whose half-open interval [startTime, startTime + duration)
\* contains t.
Covering(evs, t) ==
    {i \in 1..Len(evs) :
        evs[i].startTime <= t /\ t < evs[i].startTime + evs[i].duration}

\* The note events that pass the renderer's active test at t:
\* currentTime >= event.startTime && currentTime <= event.startTime + duration
ActiveNotes(evs, t) ==
    {i \in NoteIndices(evs) :
        t >= evs[i].startTime /\ t <= evs[i].startTime + evs[i].duration}

\* Every start and end of an event and the time just before it: between
\* two of these the events that contain t do not change.
SampleTimes(evs) ==
    LET bounds == {evs[i].startTime : i \in 1..Len(evs)}
                    \cup {evs[i].startTime + evs[i].duration : i \in 1..Len(evs)}
    IN  {t \in UNION {{b - 1, b} : b \in bounds} : t >= 0}

\* C34: in every generated timeline, every elapsed time t with 0 <= t < total
\* duration lies in the half-open interval of exactly one event, and at most
\* one note event passes the renderer's active test at any t.
C34_OneEventAtATime ==
    lastCall.made =>
        \A t \in SampleTimes(lastCall.result) :
            /\ t < totalDuration(lastCall.result) =>
                  Cardinality(Covering(lastCall.result, t)) = 1
            /\ Cardinality(ActiveNotes(lastCall.result, t)) <= 1

\* C34 witness: the timeline of "S B" was generated; the end of its first
\* dot is covered by the gap that follows and activates that dot only.
C34_Witness ==
    /\ lastCall.made
    /\ lastCall.text = <<83, 32, 66>>
    /\ lastCall.theme = DEFAULT_THEME
    /\ Covering(lastCall.result, unitTimeOf(DEFAULT_THEME)) = {2}
    /\ ActiveNotes(lastCall.result, unitTimeOf(DEFAULT_THEME)) = {1}

-----------------------------------------------------------------------------
(* Properties of the fine tuning, checked under SpecTimeline.              *)

\* % 1000: the modulus of the combined hash
HASH_MOD == 1000

\* The combined hashes for which getFrequency takes the fine-tune branch.
FineTunedHashes == {h \in 0..(HASH_MOD - 1) : h % 7 = 0}

\* C35: in the fine-tune branch of the pitch rule of generateTimeline the
\* detune (combinedHash % 7) - 3 lies in -3..+3, and over the hash values
\* 0..999 that take the branch both an upward and a downward detune occur.
C35_DetuneBothWays ==
    lastCall.made =>
        /\ \A h \in FineTunedHashes : fineTuneOf(h) \in -3..3
        /\ \E h \in FineTunedHashes : fineTuneOf(h) > 0
        /\ \E h \in FineTunedHashes : fineTuneOf(h) < 0

-----------------------------------------------------------------------------
(* The timeline generator called once, with any text and one of two        *)
(* themes.                                                                 *)

GenerateOnce ==
    /\ ~firstCall.made
    /\ \E text \in Texts, theme \in {DEFAULT_THEME, MelancholicTheme} :
          GenerateTimeline(text, theme)

SpecOnce == Init /\ [][GenerateOnce]_vars

-----------------------------------------------------------------------------
(* Properties of the codec's composition, checked under SpecOnce.          *)

\* The units one character of a text stands for: a space gives the space,
\* a syllable its jamo with a code, a character with a code (upper-cased)
\* itself, any other character nothing.
UnitsOfChar(c) ==
    IF c = 32 THEN <<32>>
    ELSE IF IsHangul(c) THEN SelectSeq(decomposeHangul(c), HasMorse)
    ELSE IF HasMorse(toUpperCase(c)) THEN <<toUpperCase(c)>>
    ELSE <<>>

\* The units of the characters of a text, in the order of the text.
RECURSIVE UnitsInOrder(_)
UnitsInOrder(text) ==
    IF text = <<>> THEN <<>>
    ELSE UnitsOfChar(Head(text)) \o UnitsInOrder(Tail(text))

-----------------------------------------------------------------------------
(* Properties of the per-unit lookup, checked under SpecHangul.            *)

\* The keys of MORSE_MAP: '!'..'_' and the compatibility jamo hold them all.
MorseKeys == {c \in (33..95) \cup (12593..12643) : MORSE_MAP(c) # <<>>}

\* C37: decomposition is idempotent on its own output: for every non-space
\* unit u that textToMorse can emit, textToMorse(u) returns decomposed = [u]
\* and a non-empty code of '.' and '-' only, so that every non-space unit of
\* a generated timeline has at least one note.
C37_UnitsLookUpThemselves ==
    lastCall.made =>
        /\ \A i \in 1..Len(textToMorse(lastCall.text).decomposed) :
              textToMorse(lastCall.text).decomposed[i] \in MorseKeys
        /\ \A u \in MorseKeys :
              LET res == textToMorse(<<u>>) IN
              /\ res.decomposed = <<u>>
              /\ res.morse # <<>>
              /\ \A k \in 1..Len(res.morse) : res.morse[k] \in {DOT, DASH}
        /\ GroupChars(lastCall.result) = SoundingUnits(lastCall.text)

\* C37 witness: the syllable U+D55C was generated; its three jamo were looked
\* up one by one and each has notes.
C37_Witness ==
    /\ lastCall.made
    /\ lastCall.text = <<54620>>
    /\ GroupChars(lastCall.result) = <<12622, 12623, 12596>>
    /\ textToMorse(<<12622>>).morse = <<".", "-", "-", "-">>

-----------------------------------------------------------------------------
(* Properties of the pitch per unit, checked under SpecOnce.               *)

\* C38: the pitch is chosen once per decomposed unit: every note carries the
\* character of its unit and the frequency the pitch rule gives for that
\* unit at a position index that counts the non-space units before it, so
\* all notes of one unit have one frequency and one char tag; word spaces
\* and skipped characters do not advance the index.
C38_PitchOncePerUnit ==
    lastCall.made =>
        LET evs   == lastCall.result
            units == SoundingUnits(lastCall.text)
        IN  \A i \in NoteIndices(evs) :
                LET k == UnitIndex(evs, i) IN
                /\ k < Len(units)
                /\ evs[i].char = units[k + 1]
                /\ evs[i].frequency
                     = getFrequency(units[k + 1], k, k + 1, Len(lastCall.text),
                                    lastCall.theme)

\* C38 witness: in the timeline of "S O" the three notes of 'S' have the
\* pitch of position 0 and the three notes of 'O' the pitch of position 1,
\* which is not the pitch 'O' would have at position 2.
C38_Witness ==
    /\ lastCall.made
    /\ lastCall.text = <<83, 32, 79>>
    /\ Cardinality(NoteIndices(lastCall.result)) = 6
    /\ \A i \in NoteIndices(lastCall.result) :
          lastCall.result[i].char = 79 =>
              /\ lastCall.result[i].frequency
                   = getFrequency(79, 1, 2, 3, lastCall.theme)
              /\ lastCall.result[i].frequency
                   # getFrequency(79, 2, 3, 3, lastCall.theme)

=============================================================================
